---- MODULE Spec2Model ----
(***************************************************************************)
(* Linera Arcade backend: the aggregation index served by                  *)
(* backend/src/routes/api.ts over the in-memory store                      *)
(* backend/src/db/memory.ts, and the PostgreSQL repositories               *)
(* (players / scores) that implement the same operations in SQL.           *)
(*                                                                         *)
(* Strings that the code inspects character by character (wallet           *)
(* addresses, usernames) are sequences of one-character strings.  An       *)
(* optional value (undefined / null) is a set: {} when absent, {v} when    *)
(* present.                                                                *)
(***************************************************************************)
EXTENDS Integers, Sequences, FiniteSets, TLC

VARIABLES
    backend,       \* which store this deployment runs: "memory" or "postgres"
    env,           \* process.env: NODE_ENV and API_SECRET_KEY
    players,       \* memory.ts `players` Map in insertion order / SQL table players
    scores,        \* memory.ts `scores` array / SQL table scores
    nextPlayerId,  \* memory.ts nextPlayerId / players.id SERIAL sequence
    nextScoreId,   \* memory.ts nextScoreId / scores.id SERIAL sequence
    stats,         \* memory.ts `stats` object / SQL table stats
    now,           \* the clock read by new Date() / NOW()
    inflight,      \* suspended async calls: what each will do when resumed
    res,           \* the response of the operation that completed last
    initPromise,   \* wasmInit: the Promise of the initialization, {} for null
    initialized,   \* wasmInit: the flag isWasmReady() answers
    lineraModule,  \* wasmInit: whether @linera/client has been imported
    promises,      \* wasmInit: every Promise the async initializer returned
    callers,       \* wasmInit: what each call of ensureWasmInitialized awaits
    resets,        \* wasmInit: the number of calls of resetWasmState so far
    connection,    \* lineraAdapter.connection, {} for null
    appConnection, \* lineraAdapter.appConnection, {} for null
    connectPromise, \* lineraAdapter.connectPromise, {} for null
    attempts,      \* lineraAdapter: every Promise performConnect returned
    connectCalls,  \* lineraAdapter: the calls of connect made
    appCalls,      \* lineraAdapter: the calls of connectApplication made
    disconnects,   \* lineraAdapter: the number of calls of disconnect so far
    isRefreshing,  \* useLeaderboard: the ref isRefreshing.current
    board,         \* useLeaderboard: the React state of the hook
    refreshes,     \* useLeaderboard: the calls of refresh made
    apiCalls,      \* arcadeApi: the calls of registerPlayer / submitScore made
    ledger,        \* the operations the Linera application has accepted
    sent           \* backendApi: the HTTP requests issued to the backend

vars == <<backend, env, players, scores, nextPlayerId, nextScoreId, stats,
          now, inflight, res,
          initPromise, initialized, lineraModule, promises, callers, resets,
          connection, appConnection, connectPromise, attempts, connectCalls,
          appCalls, disconnects, isRefreshing, board, refreshes,
          apiCalls, ledger, sent>>

store == <<players, scores, nextPlayerId, nextScoreId, stats>>

\* The state of the server process
server == <<backend, env, store, now, inflight, res>>

\* The state of the browser: the WASM initializer, and the Linera adapter
\* with the arcade client
wasmInit == <<initPromise, initialized, lineraModule, promises, callers, resets>>

adapter == <<connectPromise, attempts, connectCalls, appCalls, disconnects>>

leaderboardHook == <<isRefreshing, board, refreshes>>

arcade == <<connection, appConnection, adapter, leaderboardHook, apiCalls, ledger, sent>>

frontend == <<wasmInit, arcade>>

----
\* Bounds of the model

MaxScores == 2
MaxTime == 1
MaxInflight == 1
MaxSerial == 2
MaxBoardScores == 3
MaxRacers == 2
MaxCalls == 3
MaxResets == 1
MaxXp == 1000
MaxApiCalls == 3
MaxConnects == 3
MaxAppCalls == 2
MaxDisconnects == 2
MaxRefreshes == 3

----
\* The greatest limit each list endpoint accepts
LeaderboardCap == 500
RecentCap == 200
HighScoresCap == 100
GameScoresCap == 200

----
\* Characters and strings

Upper == <<"A","B","C","D","E","F","G","H","I","J","K","L","M",
           "N","O","P","Q","R","S","T","U","V","W","X","Y","Z">>
Lower == <<"a","b","c","d","e","f","g","h","i","j","k","l","m",
           "n","o","p","q","r","s","t","u","v","w","x","y","z">>
Digits == <<"0","1","2","3","4","5","6","7","8","9">>

Range(s) == {s[i] : i \in DOMAIN s}

UpperToLower == [c \in Range(Upper) |-> Lower[CHOOSE i \in DOMAIN Upper : Upper[i] = c]]

LowerChar(c) == IF c \in DOMAIN UpperToLower THEN UpperToLower[c] ELSE c

\* String.prototype.toLowerCase
toLowerCase(s) == [i \in DOMAIN s |-> LowerChar(s[i])]

\* UTF-16 code unit order of the characters used (digits < upper < lower)
CharCode(c) ==
    IF \E i \in DOMAIN Digits : Digits[i] = c
    THEN 48 + (CHOOSE i \in DOMAIN Digits : Digits[i] = c) - 1
    ELSE IF \E i \in DOMAIN Upper : Upper[i] = c
    THEN 65 + (CHOOSE i \in DOMAIN Upper : Upper[i] = c) - 1
    ELSE IF \E i \in DOMAIN Lower : Lower[i] = c
    THEN 97 + (CHOOSE i \in DOMAIN Lower : Lower[i] = c) - 1
    ELSE IF c = "_" THEN 95
    ELSE IF c = "-" THEN 45
    ELSE 33

Min(a, b) == IF a <= b THEN a ELSE b
Max(a, b) == IF a >= b THEN a ELSE b

----
\* Request validation (zod schemas of routes/api.ts)

GameTypes == {"SPEED_CLICKER", "MEMORY_MATRIX", "REACTION_STRIKE", "MATH_BLITZ",
              "SNAKE_SPRINT", "AIM_TRAINER", "COLOR_RUSH", "TYPING_BLITZ"}

UsernameChars == Range(Lower) \cup Range(Upper) \cup Range(Digits) \cup {"_", "-"}

\* /^[a-zA-Z0-9_-]+$/
UsernameRegex(s) == Len(s) >= 1 /\ \A i \in DOMAIN s : s[i] \in UsernameChars

\* RegisterPlayerSchema without the upper limit on the username
RegisterPlayerSchema_noMax(body) ==
    /\ Len(body.wallet_address) >= 10 /\ Len(body.wallet_address) <= 66
    /\ Len(body.username) >= 3
    /\ UsernameRegex(body.username)

RegisterPlayerSchema(body) ==
    /\ Len(body.wallet_address) >= 10 /\ Len(body.wallet_address) <= 66
    /\ Len(body.username) >= 3 /\ Len(body.username) <= 20
    /\ UsernameRegex(body.username)

\* A JSON number of a request body is a fraction <<numerator, denominator>>
\* with a positive denominator
Number(num, den) == <<num, den>>

\* Number.isInteger, the test of z.number().int()
isInteger(v) == v[1] % v[2] = 0

\* The value of a number that is an integer
valueOf(v) == v[1] \div v[2]

\* SubmitScoreSchema without .int() on score and xp_earned
SubmitScoreSchema_noInt(body) ==
    /\ Len(body.wallet_address) >= 10 /\ Len(body.wallet_address) <= 66
    /\ body.game_type \in GameTypes
    /\ body.score[1] >= 0
    /\ body.xp_earned[1] >= 0

SubmitScoreSchema(body) ==
    /\ Len(body.wallet_address) >= 10 /\ Len(body.wallet_address) <= 66
    /\ body.game_type \in GameTypes
    /\ isInteger(body.score) /\ body.score[1] >= 0
    /\ isInteger(body.xp_earned) /\ body.xp_earned[1] >= 0

\* requireApiKey letting a request through when its header equals the
\* configured key, a key that is not configured included
requireApiKey_unsetKeyOpen(apiKey) ==
    \/ env.NODE_ENV = "development"
    \/ apiKey = env.API_SECRET_KEY

\* requireApiKey: TRUE when the request is let through.  !expectedKey is
\* true of an undefined and of an empty API_SECRET_KEY.
requireApiKey(apiKey) ==
    \/ env.NODE_ENV = "development"
    \/ (env.API_SECRET_KEY \notin {{}, {""}} /\ apiKey = env.API_SECRET_KEY)

----
\* Array helpers

\* Array.prototype.slice(start, end)
slice(s, start, end) ==
    LET n == Len(s)
        from == IF start < 0 THEN Max(n + start, 0) ELSE Min(start, n)
        to == IF end < 0 THEN Max(n + end, 0) ELSE Min(end, n)
    IN IF from >= to THEN <<>> ELSE SubSeq(s, from + 1, to)

\* Array.prototype.reverse
reverse(s) == [i \in 1..Len(s) |-> s[Len(s) + 1 - i]]

\* Array.prototype.filter
RECURSIVE filter(_, _)
filter(s, keep) ==
    IF s = <<>> THEN <<>>
    ELSE IF keep[1] THEN <<Head(s)>> \o filter(Tail(s), Tail(keep))
    ELSE filter(Tail(s), Tail(keep))

\* One insertion step of a stable descending sort: index i goes after every
\* index whose key is greater than or equal to its own.
RECURSIVE InsertDesc(_, _, _)
InsertDesc(srt, i, keys) ==
    IF srt = <<>> THEN <<i>>
    ELSE IF keys[i] > keys[Head(srt)] THEN <<i>> \o srt
    ELSE <<Head(srt)>> \o InsertDesc(Tail(srt), i, keys)

\* Array.prototype.sort((a, b) => b.key - a.key): the stable sort of
\* ECMAScript, as a permutation of the indices of keys[1..n]
RECURSIVE SortDesc(_, _)
SortDesc(keys, n) ==
    IF n = 0 THEN <<>> ELSE InsertDesc(SortDesc(keys, n - 1), n, keys)

\* Math.floor(Math.sqrt(num / den)) for integers num >= 0, den > 0
RECURSIVE FloorSqrtFrom(_, _, _)
FloorSqrtFrom(k, num, den) ==
    IF (k + 1) * (k + 1) * den > num THEN k ELSE FloorSqrtFrom(k + 1, num, den)

FloorSqrt(num, den) == FloorSqrtFrom(0, num, den)

\* value || null, for an optional number and for an optional string
numberOrNull(v) == IF v = {0} THEN {} ELSE v

stringOrNull(v) == IF v = {""} THEN {} ELSE v

\* parseInt(req.query.limit) || dflt, for a query parameter that is absent
\* or holds a decimal integer
parseLimit(q, dflt) == IF q = {} \/ q = {0} THEN dflt ELSE CHOOSE n \in q : TRUE

----
\* The store: lookups

\* players.get(wallet): the index of the entry, 0 when there is none
IndexOf(wallet) ==
    IF \E i \in DOMAIN players : players[i].wallet_address = wallet
    THEN CHOOSE i \in DOMAIN players : players[i].wallet_address = wallet
    ELSE 0

Wallets == {players[i].wallet_address : i \in DOMAIN players}

PlayerOf(wallet) == players[IndexOf(wallet)]

\* getPlayerByWallet: players.get(wallet.toLowerCase()) || null
memoryDb_getPlayerByWallet(wallet) ==
    IF IndexOf(toLowerCase(wallet)) = 0 THEN {} ELSE {PlayerOf(toLowerCase(wallet))}

----
\* memory.ts: player operations

\* createPlayer starting the existing entry afresh
createPlayer_existing_reset(existing, input) ==
    [existing EXCEPT !.username = input.username, !.updated_at = now,
                     !.total_xp = 0, !.level = 1, !.games_played = 0]

\* createPlayer replacing an existing entry by a record registered now
createPlayer_existing_registeredAnew(existing, input) ==
    [existing EXCEPT !.username = input.username, !.updated_at = now,
                     !.registered_at = now]

\* createPlayer, the branch for an existing entry
createPlayer_existing(existing, input) ==
    [existing EXCEPT !.username = input.username, !.updated_at = now]

\* createPlayer, the record built for a new entry
createPlayer_new(wallet, input) ==
    [id |-> nextPlayerId,
     wallet_address |-> wallet,
     username |-> input.username,
     total_xp |-> 0,
     level |-> 1,
     games_played |-> 0,
     chain_id |-> stringOrNull(input.chain_id),
     registered_at |-> now,
     updated_at |-> now]

memoryDb_createPlayer(input) ==
    LET wallet == toLowerCase(input.wallet_address)
        k == IndexOf(wallet)
    IN IF k # 0
       THEN /\ players' = [players EXCEPT ![k] = createPlayer_existing(players[k], input)]
            /\ UNCHANGED <<nextPlayerId, stats>>
       ELSE /\ players' = Append(players, createPlayer_new(wallet, input))
            /\ nextPlayerId' = nextPlayerId + 1
            /\ stats' = [stats EXCEPT !.total_players = @ + 1]

\* updatePlayerXP computing the level before total_xp is increased
updatePlayerXP_apply_staleLevel(player, xpEarned) ==
    [player EXCEPT !.total_xp = @ + xpEarned,
                   !.games_played = @ + 1,
                   !.level = FloorSqrt(player.total_xp, 100) + 1,
                   !.updated_at = now]

\* updatePlayerXP, the assignments to an existing entry
updatePlayerXP_apply(player, xpEarned) ==
    [player EXCEPT !.total_xp = @ + xpEarned,
                   !.games_played = @ + 1,
                   !.level = FloorSqrt(player.total_xp + xpEarned, 100) + 1,
                   !.updated_at = now]

\* updatePlayerXP applied to every entry instead of the one of the wallet
memoryDb_updatePlayerXP_everyPlayer(wallet, xpEarned) ==
    players' = [i \in DOMAIN players |-> updatePlayerXP_apply(players[i], xpEarned)]

memoryDb_updatePlayerXP(wallet, xpEarned) ==
    LET k == IndexOf(toLowerCase(wallet))
    IN IF k = 0
       THEN UNCHANGED players
       ELSE players' = [players EXCEPT ![k] = updatePlayerXP_apply(players[k], xpEarned)]

\* memory.ts: score operations

\* createScore, the record built
createScore_new(input) ==
    [id |-> nextScoreId,
     player_wallet |-> toLowerCase(input.player_wallet),
     game_type |-> input.game_type,
     score |-> input.score,
     xp_earned |-> input.xp_earned,
     bonus_data |-> numberOrNull(input.bonus_data),
     chain_id |-> stringOrNull(input.chain_id),
     submitted_at |-> now]

\* createScore putting the record at the front (unshift instead of push)
memoryDb_createScore_unshift(input) ==
    /\ scores' = <<createScore_new(input)>> \o scores
    /\ nextScoreId' = nextScoreId + 1
    /\ stats' = [stats EXCEPT !.total_games_played = @ + 1,
                              !.total_xp_earned = @ + input.xp_earned]

memoryDb_createScore(input) ==
    /\ scores' = Append(scores, createScore_new(input))
    /\ nextScoreId' = nextScoreId + 1
    /\ stats' = [stats EXCEPT !.total_games_played = @ + 1,
                              !.total_xp_earned = @ + input.xp_earned]

----
\* memory.ts: ranked reads

\* The players left in insertion order, not sorted
sortedPlayers_insertionOrder == players

\* Array.from(players.values()).sort((a, b) => b.total_xp - a.total_xp)
sortedPlayers ==
    LET idx == SortDesc([i \in DOMAIN players |-> players[i].total_xp], Len(players))
    IN [j \in DOMAIN players |-> players[idx[j]]]

\* p => ({ ...p, rank: i + 1 })
withRank(p, i) ==
    [id |-> p.id, wallet_address |-> p.wallet_address, username |-> p.username,
     total_xp |-> p.total_xp, level |-> p.level, games_played |-> p.games_played,
     chain_id |-> p.chain_id, registered_at |-> p.registered_at,
     updated_at |-> p.updated_at, rank |-> i]

\* getLeaderboard giving tied players a shared rank
memoryDb_getLeaderboard_sharedRank(limit) ==
    LET sorted == slice(sortedPlayers, 0, limit)
    IN [i \in DOMAIN sorted |->
           withRank(sorted[i],
                    1 + Cardinality({j \in DOMAIN sorted :
                                       sorted[j].total_xp > sorted[i].total_xp}))]

memoryDb_getLeaderboard(limit) ==
    LET sorted == slice(sortedPlayers, 0, limit)
    IN [i \in DOMAIN sorted |-> withRank(sorted[i], i)]

\* getPlayerRank comparing the stored keys with the wallet as it was given
memoryDb_getPlayerRank_caseSensitive(wallet) ==
    LET sorted == sortedPlayers
        hits == {i \in DOMAIN sorted : sorted[i].wallet_address = wallet}
    IN IF hits = {} THEN {} ELSE {CHOOSE i \in hits : \A j \in hits : i <= j}

\* sorted.findIndex(p => p.wallet_address === wallet.toLowerCase()), then
\* index >= 0 ? index + 1 : null
memoryDb_getPlayerRank(wallet) ==
    LET sorted == sortedPlayers
        hits == {i \in DOMAIN sorted : sorted[i].wallet_address = toLowerCase(wallet)}
    IN IF hits = {} THEN {} ELSE {CHOOSE i \in hits : \A j \in hits : i <= j}

\* The loop body keeping the latest score of a player instead of the best
bestScores_step_latest(best, score) ==
    LET hits == {i \in DOMAIN best : best[i].player_wallet = score.player_wallet}
    IN IF hits = {} THEN Append(best, score)
       ELSE [best EXCEPT ![CHOOSE i \in hits : TRUE] = score]

\* The loop body of getGameHighScores: best is the Map bestScores in
\* insertion order; set() on a present key keeps the key's position.
bestScores_step(best, score) ==
    LET hits == {i \in DOMAIN best : best[i].player_wallet = score.player_wallet}
    IN IF hits = {} THEN Append(best, score)
       ELSE LET k == CHOOSE i \in hits : TRUE
            IN IF score.score > best[k].score
               THEN [best EXCEPT ![k] = score]
               ELSE best

\* for (const score of scores) { if (score.game_type !== gameType) continue; ... }
RECURSIVE bestScores(_, _, _)
bestScores(best, rest, gameType) ==
    IF rest = <<>> THEN best
    ELSE IF Head(rest).game_type # gameType
    THEN bestScores(best, Tail(rest), gameType)
    ELSE bestScores(bestScores_step(best, Head(rest)), Tail(rest), gameType)

\* players.get(s.player_wallet)?.username || 'Unknown'
usernameOf(wallet) ==
    IF IndexOf(wallet) = 0 \/ PlayerOf(wallet).username = <<>>
    THEN <<"U","n","k","n","o","w","n">>
    ELSE PlayerOf(wallet).username

\* getRecentScores: scores.slice(-limit).reverse().map(...)
memoryDb_getRecentScores(limit) ==
    LET recent == reverse(slice(scores, -limit, Len(scores)))
    IN [i \in DOMAIN recent |->
          [id |-> recent[i].id,
           player_wallet |-> recent[i].player_wallet,
           game_type |-> recent[i].game_type,
           score |-> recent[i].score,
           xp_earned |-> recent[i].xp_earned,
           bonus_data |-> recent[i].bonus_data,
           chain_id |-> recent[i].chain_id,
           submitted_at |-> recent[i].submitted_at,
           username |-> usernameOf(recent[i].player_wallet)]]

\* getGameHighScores cutting the sorted scores of the game to the limit
\* before keeping one entry per player
memoryDb_getGameHighScores_limitFirst(gameType, limit) ==
    LET ofGame == filter(scores, [i \in DOMAIN scores |-> scores[i].game_type = gameType])
        idx == SortDesc([i \in DOMAIN ofGame |-> ofGame[i].score], Len(ofGame))
        cut == slice([j \in DOMAIN ofGame |-> ofGame[idx[j]]], 0, limit)
        best == bestScores(<<>>, cut, gameType)
    IN [i \in DOMAIN best |->
          [player_wallet |-> best[i].player_wallet,
           username |-> usernameOf(best[i].player_wallet),
           score |-> best[i].score,
           xp_earned |-> best[i].xp_earned,
           rank |-> i,
           submitted_at |-> best[i].submitted_at]]

memoryDb_getGameHighScores(gameType, limit) ==
    LET best == bestScores(<<>>, scores, gameType)
        idx == SortDesc([i \in DOMAIN best |-> best[i].score], Len(best))
        sorted == slice([j \in DOMAIN best |-> best[idx[j]]], 0, limit)
    IN [i \in DOMAIN sorted |->
          [player_wallet |-> sorted[i].player_wallet,
           username |-> usernameOf(sorted[i].player_wallet),
           score |-> sorted[i].score,
           xp_earned |-> sorted[i].xp_earned,
           rank |-> i,
           submitted_at |-> sorted[i].submitted_at]]

\* getAllPlayers: Array.from(players.values()).sort(...)
memoryDb_getAllPlayers == sortedPlayers

\* getGameScores: scores.filter(...).sort((a, b) => b.score - a.score)
\* .slice(0, limit).map(...)
memoryDb_getGameScores(gameType, limit) ==
    LET ofGame == filter(scores, [i \in DOMAIN scores |-> scores[i].game_type = gameType])
        idx == SortDesc([i \in DOMAIN ofGame |-> ofGame[i].score], Len(ofGame))
        cut == slice([j \in DOMAIN ofGame |-> ofGame[idx[j]]], 0, limit)
    IN [i \in DOMAIN cut |->
          [id |-> cut[i].id,
           player_wallet |-> cut[i].player_wallet,
           game_type |-> cut[i].game_type,
           score |-> cut[i].score,
           xp_earned |-> cut[i].xp_earned,
           bonus_data |-> cut[i].bonus_data,
           chain_id |-> cut[i].chain_id,
           submitted_at |-> cut[i].submitted_at,
           username |-> usernameOf(cut[i].player_wallet)]]

\* getGlobalStats taking the player registered first for the top player
memoryDb_getGlobalStats_firstRegistered ==
    [totalPlayers |-> Len(players),
     totalGamesPlayed |-> stats.total_games_played,
     totalXpEarned |-> stats.total_xp_earned,
     topXp |-> IF players = <<>> THEN 0 ELSE players[1].total_xp,
     highestLevel |-> IF players = <<>> THEN 1 ELSE players[1].level]

\* getGlobalStats: topPlayer is allPlayers.sort(...)[0]; topPlayer?.total_xp
\* || 0 and topPlayer?.level || 1
memoryDb_getGlobalStats ==
    LET allPlayers == sortedPlayers
    IN [totalPlayers |-> Len(players),
        totalGamesPlayed |-> stats.total_games_played,
        totalXpEarned |-> stats.total_xp_earned,
        topXp |-> IF allPlayers = <<>> THEN 0 ELSE allPlayers[1].total_xp,
        highestLevel |-> IF allPlayers = <<>> \/ allPlayers[1].level = 0
                         THEN 1 ELSE allPlayers[1].level]

----
\* Requests the clients send

WalletA == <<"0","x","a","b","c","d","e","f","0","1">>
WalletAMixed == <<"0","x","A","b","C","d","E","f","0","1">>
WalletB == <<"0","x","1","2","3","4","5","6","7","8">>
WalletC == <<"0","x","c","c","c","c","c","c","c","c">>
WalletShort == <<"0","x","a","b">>

NameNeo == <<"n","e","o">>
NameMax == <<"M","a","x","_","7">>
NameAce == <<"a","c","e">>
NameShort == <<"a","b">>
NameBang == <<"a","b","!","c">>
NameLong == [i \in 1..21 |-> "a"]

Secret == "s3cret"

DevEnv == [NODE_ENV |-> "development", API_SECRET_KEY |-> {}]

Envs == {DevEnv,
         [NODE_ENV |-> "production", API_SECRET_KEY |-> {Secret}],
         [NODE_ENV |-> "production", API_SECRET_KEY |-> {""}],
         [NODE_ENV |-> "production", API_SECRET_KEY |-> {}]}

RegisterBody(w, n, c) == [wallet_address |-> w, username |-> n, chain_id |-> c]

\* A body whose score and xp_earned are the JSON numbers sc and xp
ScoreBodyOf(w, g, sc, xp, b) ==
    [wallet_address |-> w, game_type |-> g, score |-> sc, xp_earned |-> xp,
     bonus_data |-> b, chain_id |-> {}]

\* A body whose score and xp_earned are the integers sc and xp
ScoreBody(w, g, sc, xp, b) == ScoreBodyOf(w, g, Number(sc, 1), Number(xp, 1), b)

\* Requests are pairs <<x-api-key header, JSON body>>
RegisterRequests ==
    {<<{}, RegisterBody(WalletA, NameNeo, {})>>,
     <<{}, RegisterBody(WalletAMixed, NameMax, {"chain-1"})>>,
     <<{}, RegisterBody(WalletB, NameAce, {""})>>,
     <<{}, RegisterBody(WalletB, NameShort, {})>>,
     <<{}, RegisterBody(WalletA, NameBang, {})>>,
     <<{}, RegisterBody(WalletB, NameLong, {})>>}

ScoreRequests ==
    {<<{}, ScoreBody(WalletA, "SPEED_CLICKER", 10, 100, {})>>,
     <<{}, ScoreBody(WalletA, "SPEED_CLICKER", 50, 1, {0})>>,
     <<{}, ScoreBody(WalletAMixed, "SPEED_CLICKER", 50, 300, {5})>>,
     <<{}, ScoreBody(WalletA, "MEMORY_MATRIX", 70, 99, {})>>,
     <<{}, ScoreBody(WalletB, "SPEED_CLICKER", 30, 100, {})>>,
     <<{}, ScoreBody(WalletA, "PINBALL", 10, 10, {})>>,
     <<{}, ScoreBody(WalletA, "SPEED_CLICKER", -1, 10, {})>>,
     <<{}, ScoreBody(WalletB, "SPEED_CLICKER", 10, -5, {})>>,
     <<{}, ScoreBodyOf(WalletA, "SPEED_CLICKER", Number(21, 2), Number(10, 1), {})>>,
     <<{}, ScoreBodyOf(WalletB, "MEMORY_MATRIX", Number(10, 1), Number(3, 2), {})>>}

\* x-api-key headers: absent, the secret, another value, empty
ApiKeys == {{}, {Secret}, {"wrong"}, {""}}

AuthRegisterRequests == {<<k, RegisterBody(WalletA, NameNeo, {})>> : k \in ApiKeys}

AuthScoreRequests == {<<k, ScoreBody(WalletA, "SPEED_CLICKER", 10, 100, {})>> : k \in ApiKeys}

LimitParams == {{}, {0}, {1}, {2}, {3}}

\* ?limit= of a list request: absent, zero, negative, small, at the cap of
\* /scores/recent, above it, very large
LimitQueries == {{}, {0}, {-1}, {-3}, {1}, {2}, {RecentCap}, {RecentCap + 1}, {1000000}}

\* The submission a busy player repeats
RepeatedScore == ScoreBody(WalletA, "SPEED_CLICKER", 50, 1, {0})

\* Requests of two clients that register one identity under two names, and
\* the submissions that meet them
RaceRegisterRequests ==
    {<<{}, RegisterBody(WalletA, NameNeo, {})>>,
     <<{}, RegisterBody(WalletAMixed, NameMax, {"chain-1"})>>}

RaceScoreRequests ==
    {<<{}, ScoreBody(WalletA, "SPEED_CLICKER", 10, 100, {})>>,
     <<{}, ScoreBody(WalletAMixed, "SPEED_CLICKER", 50, 300, {5})>>}

\* Requests of two players whose reads are served between their writes
ReadsRegisterRequests ==
    {<<{}, RegisterBody(WalletA, NameNeo, {})>>,
     <<{}, RegisterBody(WalletB, NameAce, {""})>>}

ReadsScoreRequests ==
    {<<{}, ScoreBody(WalletA, "SPEED_CLICKER", 50, 1, {0})>>,
     <<{}, ScoreBody(WalletB, "SPEED_CLICKER", 30, 100, {})>>}

\* ?limit= of the reads: absent, and a limit that cuts the list
ReadLimits == {{}, {1}}

LookupWallets == {WalletA, WalletAMixed, WalletB, WalletC}

LookupGames == {"SPEED_CLICKER", "MEMORY_MATRIX"}

----
\* routes/api.ts over memory.ts

Response(op, status) == [op |-> op, status |-> status]

\* router.post('/players', requireApiKey, ...): the handler
PostPlayers_handler(apiKey, body) ==
    /\ backend = "memory"
    /\ IF ~requireApiKey(apiKey)
       THEN /\ res' = Response("POST /players", 401)
            /\ UNCHANGED store
       ELSE IF ~RegisterPlayerSchema(body)
       THEN /\ res' = Response("POST /players", 400)
            /\ UNCHANGED store
       ELSE /\ memoryDb_createPlayer(body)
            /\ res' = Response("POST /players", 201)
            /\ UNCHANGED <<scores, nextScoreId>>
    /\ UNCHANGED <<backend, env, now, inflight>>

\* POST /players sent by some client
PostPlayers(apiKey, body) == PostPlayers_handler(apiKey, body) /\ UNCHANGED frontend

\* router.post('/scores', requireApiKey, ...) up to the first await: the
\* call of createScore has run, the call of updatePlayerXP is still to come.
\* cap bounds the number of ScoreRecords the model stores.
PostScores_handler(apiKey, body, cap) ==
    /\ backend = "memory"
    /\ IF ~requireApiKey(apiKey)
       THEN /\ res' = Response("POST /scores", 401)
            /\ UNCHANGED <<store, inflight>>
       ELSE IF ~SubmitScoreSchema(body)
       THEN /\ res' = Response("POST /scores", 400)
            /\ UNCHANGED <<store, inflight>>
       ELSE /\ Len(scores) < cap
            /\ Len(inflight) < MaxInflight
            /\ memoryDb_createScore([player_wallet |-> body.wallet_address,
                                     game_type |-> body.game_type,
                                     score |-> valueOf(body.score),
                                     xp_earned |-> valueOf(body.xp_earned),
                                     bonus_data |-> body.bonus_data,
                                     chain_id |-> body.chain_id])
            /\ inflight' = Append(inflight, [op |-> "POST /scores", req |-> body])
            /\ UNCHANGED <<players, nextPlayerId, res>>
    /\ UNCHANGED <<backend, env, now>>

\* POST /scores sent by some client
PostScoresCapped(apiKey, body, cap) ==
    PostScores_handler(apiKey, body, cap) /\ UNCHANGED frontend

PostScores(apiKey, body) == PostScoresCapped(apiKey, body, MaxScores)

\* The sequence s without its i-th element
RemoveAt(s, i) == SubSeq(s, 1, i - 1) \o SubSeq(s, i + 1, Len(s))

\* router.post('/scores') resumed: updatePlayerXP, then the 201 response
PostScoresResume(i) ==
    /\ backend = "memory"
    /\ inflight[i].op = "POST /scores"
    /\ memoryDb_updatePlayerXP(inflight[i].req.wallet_address,
                               valueOf(inflight[i].req.xp_earned))
    /\ res' = Response("POST /scores", 201)
    /\ inflight' = RemoveAt(inflight, i)
    /\ UNCHANGED <<frontend, backend, env, now, scores, nextPlayerId, nextScoreId, stats>>

\* router.get('/players/:wallet'): the player of the response, {} for 404
GetPlayer(wallet) ==
    {[walletAddress |-> player.wallet_address,
      username |-> player.username,
      totalXp |-> player.total_xp,
      level |-> player.level,
      gamesPlayed |-> player.games_played,
      rank |-> 0] : player \in memoryDb_getPlayerByWallet(wallet)}

\* router.get('/leaderboard'): the JSON body of the response to ?limit=q
GetLeaderboard(q) ==
    LET limit == Min(parseLimit(q, 100), LeaderboardCap)
        leaderboard == memoryDb_getLeaderboard(limit)
    IN [i \in DOMAIN leaderboard |->
           [walletAddress |-> leaderboard[i].wallet_address,
            username |-> leaderboard[i].username,
            totalXp |-> leaderboard[i].total_xp,
            level |-> leaderboard[i].level,
            rank |-> leaderboard[i].rank]]

\* router.get('/leaderboard/rank/:wallet'): the rank of the response
GetRank(wallet) == memoryDb_getPlayerRank(wallet)

\* router.get('/scores/highscores/:gameType'): the JSON body of the response
GetHighScores(gameType, q) ==
    LET limit == Min(parseLimit(q, 10), HighScoresCap)
        highScores == memoryDb_getGameHighScores(gameType, limit)
    IN [i \in DOMAIN highScores |->
           [player |-> highScores[i].player_wallet,
            playerName |-> highScores[i].username,
            score |-> highScores[i].score,
            xpEarned |-> highScores[i].xp_earned,
            rank |-> highScores[i].rank,
            timestamp |-> highScores[i].submitted_at * 1000]]

\* router.get('/scores/recent'): the JSON body of the response to ?limit=q
GetScoresRecent(q) ==
    LET limit == Min(parseLimit(q, 50), RecentCap)
        recentScores == memoryDb_getRecentScores(limit)
    IN [i \in DOMAIN recentScores |->
           [id |-> recentScores[i].id,
            gameType |-> recentScores[i].game_type,
            player |-> recentScores[i].player_wallet,
            playerName |-> recentScores[i].username,
            score |-> recentScores[i].score,
            xpEarned |-> recentScores[i].xp_earned,
            bonusData |-> numberOrNull(recentScores[i].bonus_data),
            timestamp |-> recentScores[i].submitted_at * 1000]]

\* router.get('/stats'): the stats of the JSON body
GetStats == memoryDb_getGlobalStats

\* What is kept of the response to a list request: the limit asked for and
\* the number of rows answered
ListResponse(op, q, rows) ==
    [op |-> op, status |-> 200, limit |-> q, count |-> Len(rows)]

\* The list endpoints served as requests
ServeScoresRecent(q) ==
    /\ backend = "memory"
    /\ res' = ListResponse("GET /scores/recent", q, GetScoresRecent(q))
    /\ UNCHANGED <<frontend, backend, env, now, inflight, store>>

\* GET /leaderboard sorting the stored players themselves, not a copy
ServeLeaderboard_sortsStored(q) ==
    /\ backend = "memory"
    /\ res' = ListResponse("GET /leaderboard", q, GetLeaderboard(q))
    /\ players' = sortedPlayers
    /\ UNCHANGED <<frontend, backend, env, now, inflight, scores, nextPlayerId,
                   nextScoreId, stats>>

ServeLeaderboard(q) ==
    /\ backend = "memory"
    /\ res' = ListResponse("GET /leaderboard", q, GetLeaderboard(q))
    /\ UNCHANGED <<frontend, backend, env, now, inflight, store>>

\* router.get('/scores/game/:gameType'): the JSON body of the response
GetGameScores(gameType, q) ==
    LET limit == Min(parseLimit(q, 50), GameScoresCap)
        gameScores == memoryDb_getGameScores(gameType, limit)
    IN [i \in DOMAIN gameScores |->
           [id |-> gameScores[i].id,
            gameType |-> gameScores[i].game_type,
            player |-> gameScores[i].player_wallet,
            playerName |-> gameScores[i].username,
            score |-> gameScores[i].score,
            xpEarned |-> gameScores[i].xp_earned,
            bonusData |-> numberOrNull(gameScores[i].bonus_data),
            timestamp |-> gameScores[i].submitted_at * 1000]]

\* The other read endpoints served as requests.  Each works on new arrays
\* (Array.from, slice, filter) and leaves the Map, the scores array and the
\* counters as they are.
ServePlayers ==
    /\ backend = "memory"
    /\ res' = ListResponse("GET /players", {}, memoryDb_getAllPlayers)
    /\ UNCHANGED <<frontend, backend, env, now, inflight, store>>

ServePlayer(wallet) ==
    /\ backend = "memory"
    /\ res' = Response("GET /players/:wallet", IF GetPlayer(wallet) = {} THEN 404 ELSE 200)
    /\ UNCHANGED <<frontend, backend, env, now, inflight, store>>

ServeRank(wallet) ==
    /\ backend = "memory"
    /\ res' = [op |-> "GET /leaderboard/rank/:wallet", status |-> 200, rank |-> GetRank(wallet)]
    /\ UNCHANGED <<frontend, backend, env, now, inflight, store>>

ServeGameScores(gameType, q) ==
    /\ backend = "memory"
    /\ res' = ListResponse("GET /scores/game/:gameType", q, GetGameScores(gameType, q))
    /\ UNCHANGED <<frontend, backend, env, now, inflight, store>>

ServeHighScores(gameType, q) ==
    /\ backend = "memory"
    /\ res' = ListResponse("GET /scores/highscores/:gameType", q, GetHighScores(gameType, q))
    /\ UNCHANGED <<frontend, backend, env, now, inflight, store>>

ServeStats ==
    /\ backend = "memory"
    /\ res' = [op |-> "GET /stats", status |-> 200,
                topXp |-> GetStats.topXp, highestLevel |-> GetStats.highestLevel]
    /\ UNCHANGED <<frontend, backend, env, now, inflight, store>>

\* Time passes between two readings of the clock
Tick ==
    /\ now < MaxTime
    /\ now' = now + 1
    /\ UNCHANGED <<frontend, backend, env, inflight, store, res>>

----
\* The PostgreSQL repositories (players, scores) over the tables of
\* db/migrate.ts.  Every query() is one autocommitted statement; a function
\* that issues several is suspended between them.

\* Text comparison of ORDER BY on a text column
RECURSIVE StrLess(_, _)
StrLess(a, b) ==
    IF b = <<>> THEN FALSE
    ELSE IF a = <<>> THEN TRUE
    ELSE IF CharCode(Head(a)) # CharCode(Head(b)) THEN CharCode(Head(a)) < CharCode(Head(b))
    ELSE StrLess(Tail(a), Tail(b))

Perms(n) == {f \in [1..n -> 1..n] : \A i, j \in 1..n : i # j => f[i] # f[j]}

\* ORDER BY key DESC over rows: every order the sort may return, rows with
\* equal keys being in no specified order
OrderByDesc(rows, keys) ==
    {[j \in DOMAIN rows |-> rows[f[j]]] :
        f \in {g \in Perms(Len(rows)) :
                 \A i, j \in DOMAIN rows : i < j => keys[g[i]] >= keys[g[j]]}}

\* INSERT INTO players ... ON CONFLICT (wallet_address) DO UPDATE SET
\* username = EXCLUDED.username, updated_at = NOW(); the id default draws
\* from the sequence before the conflict is detected
players_insertOrUpdate(input) ==
    LET wallet == toLowerCase(input.wallet_address)
        k == IndexOf(wallet)
    IN /\ nextPlayerId' = nextPlayerId + 1
       /\ IF k # 0
          THEN players' = [players EXCEPT ![k] =
                              [@ EXCEPT !.username = input.username, !.updated_at = now]]
          ELSE players' = Append(players,
                              [id |-> nextPlayerId,
                               wallet_address |-> wallet,
                               username |-> input.username,
                               total_xp |-> 0,
                               level |-> 1,
                               games_played |-> 0,
                               chain_id |-> stringOrNull(input.chain_id),
                               registered_at |-> now,
                               updated_at |-> now])

\* createPlayer, first statement; cap bounds the number of calls the model
\* holds suspended
pgCreatePlayerCapped(input, cap) ==
    /\ backend = "postgres"
    /\ nextPlayerId <= MaxSerial
    /\ Len(inflight) < cap
    /\ players_insertOrUpdate(input)
    /\ inflight' = Append(inflight, [op |-> "createPlayer", req |-> input])
    /\ UNCHANGED <<frontend, backend, env, now, scores, nextScoreId, stats, res>>

pgCreatePlayer(input) == pgCreatePlayerCapped(input, MaxInflight)

\* createPlayer, second statement: UPDATE stats ... WHERE key = 'total_players'
pgCreatePlayerStats(i) ==
    /\ backend = "postgres"
    /\ inflight[i].op = "createPlayer"
    /\ stats' = [stats EXCEPT !.total_players = @ + 1]
    /\ inflight' = RemoveAt(inflight, i)
    /\ res' = Response("createPlayer", 200)
    /\ UNCHANGED <<frontend, backend, env, now, players, scores, nextPlayerId, nextScoreId>>

\* updatePlayerXP, the SET clause: the right-hand sides read the old row;
\* level = GREATEST(1, FLOOR(POWER((total_xp + $2) / 100.0, 0.5))::integer + 1)
pgUpdatePlayerXP_set(row, xpEarned) ==
    [row EXCEPT !.total_xp = @ + xpEarned,
                !.games_played = @ + 1,
                !.level = Max(1, FloorSqrt(row.total_xp + xpEarned, 100) + 1),
                !.updated_at = now]

\* updatePlayerXP: one UPDATE
pgUpdatePlayerXP(input) ==
    LET k == IndexOf(toLowerCase(input.wallet_address))
    IN /\ backend = "postgres"
       /\ IF k = 0
          THEN UNCHANGED players
          ELSE /\ players[k].games_played < MaxScores
               /\ players' = [players EXCEPT ![k] =
                                  pgUpdatePlayerXP_set(players[k], input.xp_earned)]
       /\ res' = Response("updatePlayerXP", 200)
       /\ UNCHANGED <<frontend, backend, env, now, scores, nextPlayerId, nextScoreId, stats, inflight>>

\* createScore, first statement: INSERT INTO scores; player_wallet
\* REFERENCES players(wallet_address), and the id is drawn from the
\* sequence even when the insert fails
pgCreateScore(input) ==
    /\ backend = "postgres"
    /\ nextScoreId <= MaxSerial
    /\ Len(scores) < MaxScores
    /\ Len(inflight) < MaxInflight
    /\ nextScoreId' = nextScoreId + 1
    /\ IF IndexOf(toLowerCase(input.player_wallet)) = 0
       THEN /\ res' = Response("createScore", 500)
            /\ UNCHANGED <<scores, inflight>>
       ELSE /\ scores' = Append(scores, createScore_new(input))
            /\ inflight' = Append(inflight, [op |-> "createScore", req |-> input])
            /\ UNCHANGED res
    /\ UNCHANGED <<frontend, backend, env, now, players, nextPlayerId, stats>>

\* createScore, second statement: UPDATE stats ... 'total_games_played'
pgCreateScoreGames(i) ==
    /\ backend = "postgres"
    /\ inflight[i].op = "createScore"
    /\ stats' = [stats EXCEPT !.total_games_played = @ + 1]
    /\ inflight' = [inflight EXCEPT ![i].op = "createScore.xp"]
    /\ UNCHANGED <<frontend, backend, env, now, players, scores, nextPlayerId, nextScoreId, res>>

\* createScore, third statement: UPDATE stats ... 'total_xp_earned'
pgCreateScoreXp(i) ==
    /\ backend = "postgres"
    /\ inflight[i].op = "createScore.xp"
    /\ stats' = [stats EXCEPT !.total_xp_earned = @ + inflight[i].req.xp_earned]
    /\ inflight' = RemoveAt(inflight, i)
    /\ res' = Response("createScore", 200)
    /\ UNCHANGED <<frontend, backend, env, now, players, scores, nextPlayerId, nextScoreId>>

\* SELECT *, ROW_NUMBER() OVER (ORDER BY total_xp DESC) as rank FROM players:
\* every numbering the window may produce, as wallet -> rank
players_rowNumbers ==
    {[w \in Wallets |-> CHOOSE j \in DOMAIN o : o[j].wallet_address = w] :
        o \in OrderByDesc(players, [i \in DOMAIN players |-> players[i].total_xp])}

\* getLeaderboard: the results the query may return
pg_getLeaderboard(limit) ==
    {[j \in 1..Min(limit, Len(players)) |-> withRank(o[j], rn[o[j].wallet_address])] :
        o \in OrderByDesc(players, [i \in DOMAIN players |-> players[i].total_xp]),
        rn \in players_rowNumbers}

\* getPlayerRank: the results the query may return, {} standing for null
pg_getPlayerRank(wallet) ==
    IF IndexOf(toLowerCase(wallet)) = 0 THEN {{}}
    ELSE {{rn[toLowerCase(wallet)]} : rn \in players_rowNumbers}

\* The distinct wallets of ws in ascending order (ORDER BY s.player_wallet)
RECURSIVE Ascending(_)
Ascending(ws) ==
    IF ws = {} THEN <<>>
    ELSE LET w == CHOOSE x \in ws : \A y \in ws \ {x} : StrLess(x, y)
         IN <<w>> \o Ascending(ws \ {w})

\* getGameHighScores: the results the function may return.  DISTINCT ON
\* (s.player_wallet) ... ORDER BY s.player_wallet, s.score DESC keeps, for
\* each wallet, one of its rows of greatest score; the rows come ordered by
\* wallet and are then sorted, cut and ranked in JavaScript.
pg_getGameHighScores(gameType, limit) ==
    LET rows == {i \in DOMAIN scores : scores[i].game_type = gameType
                                       /\ IndexOf(scores[i].player_wallet) # 0}
        ws == Ascending({scores[i].player_wallet : i \in rows})
        first(w) == {i \in rows : /\ scores[i].player_wallet = w
                                  /\ \A j \in rows : scores[j].player_wallet = w
                                                       => scores[j].score <= scores[i].score}
    IN {LET idx == SortDesc([i \in DOMAIN ws |-> scores[pick[i]].score], Len(ws))
            sorted == slice([j \in DOMAIN ws |-> scores[pick[idx[j]]]], 0, limit)
        IN [i \in DOMAIN sorted |->
               [player_wallet |-> sorted[i].player_wallet,
                username |-> PlayerOf(sorted[i].player_wallet).username,
                score |-> sorted[i].score,
                xp_earned |-> sorted[i].xp_earned,
                submitted_at |-> sorted[i].submitted_at,
                rank |-> i]] :
        pick \in {f \in [DOMAIN ws -> rows] : \A i \in DOMAIN ws : f[i] \in first(ws[i])}}

\* getGlobalStats: the results the function may return.  SELECT total_xp,
\* level FROM players ORDER BY total_xp DESC LIMIT 1 answers any of the rows
\* of greatest total_xp.
pg_getGlobalStats ==
    {[totalPlayers |-> stats.total_players,
      totalGamesPlayed |-> stats.total_games_played,
      totalXpEarned |-> stats.total_xp_earned,
      topXp |-> IF o = <<>> THEN 0 ELSE o[1].total_xp,
      highestLevel |-> IF o = <<>> \/ o[1].level = 0 THEN 1 ELSE o[1].level] :
        o \in OrderByDesc(players, [i \in DOMAIN players |-> players[i].total_xp])}

\* Calls made on the repositories
PgPlayerInputs ==
    {RegisterBody(WalletA, NameNeo, {}),
     RegisterBody(WalletAMixed, NameMax, {"chain-1"}),
     RegisterBody(WalletB, NameAce, {""})}

PgScoreInput(w, g, sc, xp, b) ==
    [player_wallet |-> w, game_type |-> g, score |-> sc, xp_earned |-> xp,
     bonus_data |-> b, chain_id |-> {}]

PgScoreInputs ==
    {PgScoreInput(WalletA, "SPEED_CLICKER", 10, 100, {}),
     PgScoreInput(WalletA, "SPEED_CLICKER", 50, 1, {0}),
     PgScoreInput(WalletAMixed, "SPEED_CLICKER", 50, 300, {5}),
     PgScoreInput(WalletA, "MEMORY_MATRIX", 70, 99, {}),
     PgScoreInput(WalletB, "SPEED_CLICKER", 30, 100, {})}

PgXpInputs ==
    {[wallet_address |-> WalletAMixed, xp_earned |-> 100],
     [wallet_address |-> WalletC, xp_earned |-> 1]}

----
\* frontend wasmInit: the module that initializes the @linera/client WASM.
\* A Promise of the async initializer is a record: pc is where the
\* initializer stands ("import" awaiting getLineraModule(), "initialize"
\* awaiting linera.initialize(), "resolved", "rejected"), invoked whether it
\* has called linera.initialize().

InitWasm ==
    /\ initPromise = {}
    /\ initialized = FALSE
    /\ lineraModule = FALSE
    /\ promises = <<>>
    /\ callers = <<>>
    /\ resets = 0

\* if (initPromise) never taken
initInProgress_never == FALSE

\* if (initPromise)
initInProgress == initPromise # {}

\* ensureWasmInitialized() called: it returns at once, or returns the
\* Promise in progress, or starts the initializer, which runs up to its
\* first await before the assignment to initPromise
ensureWasmInitialized_run ==
    /\ Len(callers) < MaxCalls
    /\ IF initialized
       THEN /\ callers' = Append(callers, {})
            /\ UNCHANGED <<initPromise, promises>>
       ELSE IF initInProgress
       THEN /\ callers' = Append(callers, initPromise)
            /\ UNCHANGED <<initPromise, promises>>
       ELSE /\ promises' = Append(promises, [pc |-> "import", invoked |-> FALSE])
            /\ initPromise' = {Len(promises) + 1}
            /\ callers' = Append(callers, {Len(promises) + 1})
    /\ UNCHANGED <<initialized, lineraModule, resets>>

\* ensureWasmInitialized() called on its own
ensureWasmInitialized ==
    /\ ensureWasmInitialized_run
    /\ UNCHANGED <<server, arcade>>

\* The catch block leaving the failed Promise in initPromise
initFailed_keepsPromise(p) ==
    /\ initialized' = FALSE
    /\ promises' = [promises EXCEPT ![p].pc = "rejected"]
    /\ UNCHANGED initPromise

\* The catch block for an error that is not "already initialized"
initFailed(p) ==
    /\ initPromise' = {}
    /\ initialized' = FALSE
    /\ promises' = [promises EXCEPT ![p].pc = "rejected"]

\* await getLineraModule() settles: the module is there and
\* linera.initialize() is called, or the import threw
getLineraModule(p, loaded) ==
    /\ promises[p].pc = "import"
    /\ loaded \/ ~lineraModule
    /\ IF loaded
       THEN /\ lineraModule' = TRUE
            /\ promises' = [promises EXCEPT ![p] = [pc |-> "initialize", invoked |-> TRUE]]
            /\ UNCHANGED <<initPromise, initialized>>
       ELSE /\ initFailed(p)
            /\ UNCHANGED lineraModule
    /\ UNCHANGED <<server, arcade, callers, resets>>

\* What linera.initialize() may do: succeed, throw "already initialized",
\* throw another error
InitializeOutcomes == {"ok", "already", "error"}

\* await linera.initialize() settles
initialize(p, outcome) ==
    /\ promises[p].pc = "initialize"
    /\ IF outcome \in {"ok", "already"}
       THEN /\ initialized' = TRUE
            /\ promises' = [promises EXCEPT ![p].pc = "resolved"]
            /\ UNCHANGED initPromise
       ELSE initFailed(p)
    /\ UNCHANGED <<server, arcade, lineraModule, callers, resets>>

resetWasmState ==
    /\ resets < MaxResets
    /\ initPromise' = {}
    /\ initialized' = FALSE
    /\ resets' = resets + 1
    /\ UNCHANGED <<server, arcade, lineraModule, promises, callers>>

isWasmReady == initialized

----
\* frontend: lineraAdapter, backendApi and arcadeApi.  A call of arcadeApi
\* is a record: op and args as called, pc where it stands ("mutate" awaiting
\* lineraAdapter.mutate, "returned", "threw").  A request issued is a record:
\* call the call of arcadeApi that issued it, request what post() sends,
\* delivered whether it has reached the backend.

InitArcade ==
    /\ connection = {}
    /\ appConnection = {}
    /\ apiCalls = <<>>
    /\ ledger = <<>>
    /\ sent = <<>>
    /\ connectPromise = {}
    /\ attempts = <<>>
    /\ connectCalls = <<>>
    /\ appCalls = <<>>
    /\ disconnects = 0

\* -- the hook useLeaderboard --

\* The game types of the client: Object.values(GameTypeEnum)
HookGameTypes == {"SPEED_CLICKER", "MEMORY_MATRIX", "REACTION_STRIKE", "MATH_BLITZ",
                  "SNAKE_SPRINT"}

\* The useState initial values and the two refs of the hook
InitLeaderboard ==
    /\ isRefreshing = FALSE
    /\ board = [leaderboard |-> <<>>,
                gameHighScores |-> [g \in HookGameTypes |-> <<>>],
                stats |-> [totalPlayers |-> 0, topXp |-> 0, highestLevel |-> 1],
                isLoading |-> TRUE,
                error |-> {},
                lastUpdated |-> {}]
    /\ refreshes = <<>>

\* The data the hook shows
Loaded(b) == [leaderboard |-> b.leaderboard, gameHighScores |-> b.gameHighScores,
              stats |-> b.stats]

\* A call of refresh is a record: pc where it stands ("skipped",
\* "getLeaderboard", "getStats", "getGameHighScores" awaiting the backend,
\* "done", "failed"), loaded the data the hook showed when it was called.

\* refresh() called: it is skipped while another is in progress, or it
\* takes the flag and asks for the leaderboard
useLeaderboard_refresh ==
    /\ Len(refreshes) < MaxRefreshes
    /\ IF isRefreshing
       THEN /\ refreshes' = Append(refreshes, [pc |-> "skipped", loaded |-> Loaded(board)])
            /\ UNCHANGED <<isRefreshing, board>>
       ELSE /\ isRefreshing' = TRUE
            /\ board' = [board EXCEPT !.isLoading = TRUE, !.error = {}]
            /\ refreshes' = Append(refreshes,
                                   [pc |-> "getLeaderboard", loaded |-> Loaded(board)])
    /\ UNCHANGED <<server, wasmInit, connection, appConnection, adapter,
                   apiCalls, ledger, sent>>

\* The catch and finally blocks forgetting to release the flag
refresh_failed_keepsFlag(i) ==
    /\ board' = [board EXCEPT !.error = {"Failed to load leaderboard"},
                              !.isLoading = FALSE]
    /\ UNCHANGED isRefreshing
    /\ refreshes' = [refreshes EXCEPT ![i].pc = "failed"]

\* A request of refresh i threw: the catch block sets the error and keeps
\* the data, the finally block releases the flag
refresh_failed(i) ==
    /\ board' = [board EXCEPT !.error = {"Failed to load leaderboard"},
                              !.isLoading = FALSE]
    /\ isRefreshing' = FALSE
    /\ refreshes' = [refreshes EXCEPT ![i].pc = "failed"]

\* await backendApi.getLeaderboard(100) settles
refresh_getLeaderboard(i, ok) ==
    /\ backend = "memory"
    /\ refreshes[i].pc = "getLeaderboard"
    /\ IF ok
       THEN /\ board' = [board EXCEPT !.leaderboard = GetLeaderboard({100})]
            /\ refreshes' = [refreshes EXCEPT ![i].pc = "getStats"]
            /\ UNCHANGED isRefreshing
       ELSE refresh_failed(i)
    /\ UNCHANGED <<server, wasmInit, connection, appConnection, adapter,
                   apiCalls, ledger, sent>>

\* await backendApi.getStats() settles
refresh_getStats(i, ok) ==
    /\ backend = "memory"
    /\ refreshes[i].pc = "getStats"
    /\ IF ok
       THEN /\ board' = [board EXCEPT !.stats = [totalPlayers |-> GetStats.totalPlayers,
                                                  topXp |-> GetStats.topXp,
                                                  highestLevel |-> GetStats.highestLevel]]
            /\ refreshes' = [refreshes EXCEPT ![i].pc = "getGameHighScores"]
            /\ UNCHANGED isRefreshing
       ELSE refresh_failed(i)
    /\ UNCHANGED <<server, wasmInit, connection, appConnection, adapter,
                   apiCalls, ledger, sent>>

\* s => ({player, username: s.playerName, score, xpEarned, timestamp})
highScoreEntry(s) ==
    [player |-> s.player, username |-> s.playerName, score |-> s.score,
     xpEarned |-> s.xpEarned, timestamp |-> s.timestamp]

\* await Promise.all(highScorePromises) settles, the requests for the game
\* types in answered having succeeded and the others having thrown (which
\* gives []): the high scores are replaced and the finally block releases
\* the flag
refresh_getGameHighScores(i, answered) ==
    /\ backend = "memory"
    /\ refreshes[i].pc = "getGameHighScores"
    /\ board' = [board EXCEPT
                    !.gameHighScores =
                        [g \in HookGameTypes |->
                            IF g \in answered
                            THEN LET scs == GetHighScores(g, {10})
                                 IN [k \in DOMAIN scs |-> highScoreEntry(scs[k])]
                            ELSE <<>>],
                    !.lastUpdated = {now},
                    !.isLoading = FALSE]
    /\ isRefreshing' = FALSE
    /\ refreshes' = [refreshes EXCEPT ![i].pc = "done"]
    /\ UNCHANGED <<server, wasmInit, connection, appConnection, adapter,
                   apiCalls, ledger, sent>>

InitFrontend == InitWasm /\ InitArcade /\ InitLeaderboard

\* VITE_API_KEY || '', and the header post() sets: if (API_KEY)
API_KEY == ""

ApiKeyHeader == IF API_KEY = "" THEN {} ELSE {API_KEY}

\* lineraAdapter.disconnect()
lineraAdapter_disconnect ==
    /\ disconnects < MaxDisconnects
    /\ connection' = {}
    /\ appConnection' = {}
    /\ connectPromise' = {}
    /\ disconnects' = disconnects + 1
    /\ UNCHANGED <<server, leaderboardHook, wasmInit, attempts, connectCalls, appCalls,
                   apiCalls, ledger, sent>>

\* isConnected() and isApplicationConnected()
isConnected == connection # {}

isApplicationConnected == appConnection # {}

\* The chain faucet.claimChain gives the n-th attempt: a new one each time
ChainIds == <<"chain-1", "chain-2", "chain-3">>

\* A call of connect is a record: wallet the address it was called for,
\* promise the attempt it awaits ({} when it returned at once), pc where it
\* stands ("await", "returned", "threw"), value the connection it returned,
\* epoch the number of calls of disconnect made before it.
\* An attempt, a Promise of performConnect, is a record: address it
\* connects, pc ("wasm" awaiting ensureWasmInitialized(), "faucet" awaiting
\* the faucet and the client, "resolved", "rejected"), wasm the call of
\* ensureWasmInitialized it made.

\* if (this.connectPromise) never taken
connectInProgress_never == FALSE

\* if (this.connectPromise)
connectInProgress == connectPromise # {}

\* lineraAdapter.connect(dynamicWallet) called: it throws without an
\* address, returns the connection of the same address, returns the attempt
\* in progress, or starts performConnect, which runs up to its await of
\* ensureWasmInitialized()
lineraAdapter_connect(wallet) ==
    LET userAddress == toLowerCase(wallet)
        call(promise, pc, value) ==
            [wallet |-> userAddress, promise |-> promise, pc |-> pc, value |-> value,
             epoch |-> disconnects]
    IN /\ Len(connectCalls) < MaxConnects
       /\ IF userAddress = <<>>
          THEN /\ connectCalls' = Append(connectCalls, call({}, "threw", {}))
               /\ UNCHANGED <<wasmInit, connectPromise, attempts>>
          ELSE IF \E c \in connection : c.address = userAddress
          THEN /\ connectCalls' = Append(connectCalls, call({}, "returned", connection))
               /\ UNCHANGED <<wasmInit, connectPromise, attempts>>
          ELSE IF connectInProgress
          THEN /\ connectCalls' = Append(connectCalls, call(connectPromise, "await", {}))
               /\ UNCHANGED <<wasmInit, connectPromise, attempts>>
          ELSE /\ ensureWasmInitialized_run
               /\ attempts' = Append(attempts, [address |-> userAddress, pc |-> "wasm",
                                                wasm |-> Len(callers) + 1])
               /\ connectPromise' = {Len(attempts) + 1}
               /\ connectCalls' = Append(connectCalls,
                                         call({Len(attempts) + 1}, "await", {}))
       /\ UNCHANGED <<server, leaderboardHook, connection, appConnection, appCalls, disconnects,
                      apiCalls, ledger, sent>>

\* The attempt a settles with the connection value ({} when it failed): the
\* calls awaiting it return or throw, and the finally block of the call
\* that started it sets connectPromise to null
performConnect_settled(a, value) ==
    /\ attempts' = [attempts EXCEPT ![a].pc = IF value = {} THEN "rejected" ELSE "resolved"]
    /\ connection' = value
    /\ connectPromise' = {}
    /\ connectCalls' = [c \in DOMAIN connectCalls |->
                          IF connectCalls[c].promise = {a} /\ connectCalls[c].pc = "await"
                          THEN [connectCalls[c] EXCEPT
                                   !.pc = IF value = {} THEN "threw" ELSE "returned",
                                   !.value = value]
                          ELSE connectCalls[c]]

\* await ensureWasmInitialized() settles in performConnect: it goes on to
\* the faucet, or the catch block sets connection to null and rethrows
performConnect_wasm(a) ==
    /\ attempts[a].pc = "wasm"
    /\ LET awaited == callers[attempts[a].wasm]
       IN IF \A p \in awaited : promises[p].pc = "resolved"
          THEN /\ attempts' = [attempts EXCEPT ![a].pc = "faucet"]
               /\ UNCHANGED <<connection, connectPromise, connectCalls>>
          ELSE /\ \E p \in awaited : promises[p].pc = "rejected"
               /\ performConnect_settled(a, {})
    /\ UNCHANGED <<server, leaderboardHook, wasmInit, appConnection, appCalls, disconnects,
                   apiCalls, ledger, sent>>

\* What the faucet and the client may do: give the wallet, the chain and
\* the client, or throw
FaucetOutcomes == {"ok", "error"}

\* faucet.createWallet(), faucet.claimChain() and new Client() settle: the
\* connection is stored, or the catch block sets it to null and rethrows
performConnect(a, outcome) ==
    /\ attempts[a].pc = "faucet"
    /\ performConnect_settled(a, IF outcome = "ok"
                                 THEN {[address |-> attempts[a].address,
                                        chainId |-> ChainIds[a]]}
                                 ELSE {})
    /\ UNCHANGED <<server, leaderboardHook, wasmInit, appConnection, appCalls, disconnects,
                   apiCalls, ledger, sent>>

\* A call of connectApplication is a record: chainId the chain of the
\* connection it read when called, pc ("await", "returned", "threw").

\* lineraAdapter.connectApplication() called with the configured
\* application id: it throws without a connection, returns the application
\* connection there is, or asks the client of the connection for the chain
\* and the application
lineraAdapter_connectApplication ==
    /\ Len(appCalls) < MaxAppCalls
    /\ appCalls' = Append(appCalls,
                          [chainId |-> {c.chainId : c \in connection},
                           pc |-> IF connection = {} THEN "threw"
                                  ELSE IF appConnection # {} THEN "returned"
                                  ELSE "await"])
    /\ UNCHANGED <<server, leaderboardHook, wasmInit, connection, appConnection, connectPromise,
                   attempts, connectCalls, disconnects, apiCalls, ledger, sent>>

\* client.chain() and chain.application() settle: the application
\* connection is stored, or the catch block sets it to null and rethrows
connectApplication(i, outcome) ==
    /\ appCalls[i].pc = "await"
    /\ IF outcome = "ok"
       THEN /\ appConnection' = {[chainId |-> c] : c \in appCalls[i].chainId}
            /\ appCalls' = [appCalls EXCEPT ![i].pc = "returned"]
       ELSE /\ appConnection' = {}
            /\ appCalls' = [appCalls EXCEPT ![i].pc = "threw"]
    /\ UNCHANGED <<server, leaderboardHook, wasmInit, connection, connectPromise, attempts,
                   connectCalls, disconnects, apiCalls, ledger, sent>>

\* getAddress(): this.connection?.address ?? null
getAddress == {c.address : c \in connection}

\* getChainId() as the callers pass it on: chainId || undefined
getChainId == {c.chainId : c \in connection} \ {""}

\* calculateXP of arcadeApi
calculateXP(gameType, score, bonusData) ==
    LET bonus == IF bonusData = {} THEN 0 ELSE CHOOSE b \in bonusData : TRUE
    IN CASE gameType = "SPEED_CLICKER" -> score * 10
         [] gameType = "MEMORY_MATRIX" -> score * 100 + bonus * 50
         [] gameType = "REACTION_STRIKE" -> Max(0, 1000 - score) * bonus
         [] gameType = "MATH_BLITZ" -> score * 25 + bonus * 10
         [] gameType = "SNAKE_SPRINT" -> score * 15 + bonus * 5
         [] gameType = "AIM_TRAINER" -> score * 20 + (bonus \div 10) * 5
         [] gameType = "COLOR_RUSH" -> score * 30 + bonus * 10
         [] gameType = "TYPING_BLITZ" -> score * 25 + (bonus \div 10) * 5
         [] OTHER -> score

\* backendApi.registerPlayer: the request post('/players', ...) issues
backendApi_registerPlayer(wallet, username, chainId) ==
    [endpoint |-> "POST /players",
     apiKey |-> ApiKeyHeader,
     body |-> RegisterBody(toLowerCase(wallet), username, chainId)]

\* backendApi.submitScore: the request post('/scores', ...) issues
backendApi_submitScore(wallet, gameType, score, xpEarned, bonusData, chainId) ==
    [endpoint |-> "POST /scores",
     apiKey |-> ApiKeyHeader,
     body |-> [ScoreBodyOf(toLowerCase(wallet), gameType, Number(score, 1),
                           Number(xpEarned, 1), bonusData)
                  EXCEPT !.chain_id = chainId]]

\* A call of arcadeApi up to its await of lineraAdapter.mutate: query()
\* throws when there is no application connection, and otherwise hands the
\* mutation to the application
arcadeApi_call(op, args) ==
    /\ Len(apiCalls) < MaxApiCalls
    /\ apiCalls' = Append(apiCalls,
                          [op |-> op, args |-> args,
                           pc |-> IF appConnection = {} THEN "threw" ELSE "mutate"])
    /\ UNCHANGED <<server, leaderboardHook, wasmInit, connection, appConnection, adapter, ledger, sent>>

\* arcadeApi.registerPlayer issuing the backend request before the mutation
\* has been awaited
arcadeApi_registerPlayer_syncFirst(username) ==
    /\ Len(apiCalls) < MaxApiCalls
    /\ apiCalls' = Append(apiCalls,
                          [op |-> "registerPlayer", args |-> <<username>>,
                           pc |-> IF appConnection = {} THEN "threw" ELSE "mutate"])
    /\ sent' = sent \o [i \in 1..Cardinality(getAddress) |->
                           [call |-> Len(apiCalls) + 1, delivered |-> FALSE,
                            request |-> backendApi_registerPlayer(
                                           CHOOSE w \in getAddress : TRUE,
                                           username, getChainId)]]
    /\ UNCHANGED <<server, leaderboardHook, wasmInit, connection, appConnection, adapter, ledger>>

arcadeApi_registerPlayer(username) == arcadeApi_call("registerPlayer", <<username>>)

arcadeApi_submitScore(gameType, score, bonusData) ==
    arcadeApi_call("submitScore", <<gameType, score, bonusData>>)

\* What the awaited mutation may do: answer data, answer GraphQL errors,
\* reject
QueryOutcomes == {"data", "errors", "rejected"}

\* The request the rest of the call issues: if (wallet) backendApi....
syncRequest(call) ==
    IF call.op = "registerPlayer"
    THEN {backendApi_registerPlayer(wallet, call.args[1], getChainId) : wallet \in getAddress}
    ELSE {backendApi_submitScore(wallet, call.args[1], call.args[2],
                                 calculateXP(call.args[1], call.args[2], call.args[3]),
                                 call.args[3], getChainId) : wallet \in getAddress}

\* await lineraAdapter.mutate(...) settles for call i.  On data the
\* application has accepted the operation and the call goes on to the backend
\* sync, which it does not await; otherwise query() throws and so does the call.
lineraAdapter_mutate(i, outcome) ==
    /\ apiCalls[i].pc = "mutate"
    /\ IF outcome = "data"
       THEN /\ ledger' = Append(ledger, [call |-> i, op |-> apiCalls[i].op,
                                         args |-> apiCalls[i].args])
            /\ sent' = sent \o [j \in 1..Cardinality(syncRequest(apiCalls[i])) |->
                                   [call |-> i, delivered |-> FALSE,
                                    request |-> CHOOSE r \in syncRequest(apiCalls[i]) : TRUE]]
            /\ apiCalls' = [apiCalls EXCEPT ![i].pc = "returned"]
       ELSE /\ apiCalls' = [apiCalls EXCEPT ![i].pc = "threw"]
            /\ UNCHANGED <<ledger, sent>>
    /\ UNCHANGED <<server, leaderboardHook, wasmInit, connection, appConnection, adapter>>

\* The player the application answers to GET_PLAYER on the chain of the
\* connected wallet: registered once a registerPlayer was accepted, with the
\* XP of the accepted scores ("same formula as contract")
RECURSIVE ledgerTotalXp(_)
ledgerTotalXp(ops) ==
    IF ops = <<>> THEN 0
    ELSE (IF Head(ops).op = "submitScore"
          THEN calculateXP(Head(ops).args[1], Head(ops).args[2], Head(ops).args[3])
          ELSE 0)
         + ledgerTotalXp(Tail(ops))

ledgerPlayer ==
    IF \E l \in DOMAIN ledger : ledger[l].op = "registerPlayer"
    THEN {[username |-> ledger[CHOOSE l \in DOMAIN ledger :
                                  ledger[l].op = "registerPlayer"].args[1],
           totalXp |-> ledgerTotalXp(ledger)]}
    ELSE {}

\* A call of syncToLeaderboard is a record of apiCalls with op
\* "syncToLeaderboard": wallet and chainId as read when called, player the
\* answer of the ledger, pc where it stands ("query" awaiting
\* lineraAdapter.query, "registerPlayer" and "submitScore" awaiting the
\* backend, "returned", "threw").

\* arcadeApi.syncToLeaderboard() called: it throws without a wallet, query()
\* throws without an application connection, or the player is asked for
arcadeApi_syncToLeaderboard ==
    /\ Len(apiCalls) < MaxApiCalls
    /\ apiCalls' = Append(apiCalls,
                          [op |-> "syncToLeaderboard", args |-> <<>>,
                           wallet |-> getAddress, chainId |-> getChainId,
                           player |-> {},
                           pc |-> IF getAddress = {} \/ appConnection = {}
                                  THEN "threw" ELSE "query"])
    /\ UNCHANGED <<server, wasmInit, leaderboardHook, connection, appConnection,
                   adapter, ledger, sent>>

\* await lineraAdapter.query(GET_PLAYER) settles: the call throws on an
\* error and when the ledger has no player, and otherwise sends the
\* registration to the backend and awaits it
syncToLeaderboard_query(i, outcome) ==
    /\ apiCalls[i].op = "syncToLeaderboard"
    /\ apiCalls[i].pc = "query"
    /\ IF outcome = "data" /\ ledgerPlayer # {}
       THEN /\ apiCalls' = [apiCalls EXCEPT ![i].pc = "registerPlayer",
                                            ![i].player = ledgerPlayer]
            /\ sent' = sent \o
                   [j \in 1..1 |->
                       [call |-> i, delivered |-> FALSE,
                        request |-> CHOOSE r \in
                            {backendApi_registerPlayer(w, pl.username, apiCalls[i].chainId) :
                                w \in apiCalls[i].wallet, pl \in ledgerPlayer} : TRUE]]
       ELSE /\ apiCalls' = [apiCalls EXCEPT ![i].pc = "threw"]
            /\ UNCHANGED sent
    /\ UNCHANGED <<server, wasmInit, leaderboardHook, connection, appConnection,
                   adapter, ledger>>

\* The request the call i of syncToLeaderboard awaits has been answered:
\* it has reached the backend and its handler has completed
Answered(i, endpoint) ==
    /\ inflight = <<>>
    /\ \E s \in DOMAIN sent : /\ sent[s].call = i
                               /\ sent[s].request.endpoint = endpoint
                               /\ sent[s].delivered

\* if (result.player.totalXp > 0) await backendApi.submitScore(wallet,
\* GameType.SNAKE_SPRINT, 0, result.player.totalXp, undefined, chainId)
syncToLeaderboard_xp(i) ==
    {backendApi_submitScore(w, "SNAKE_SPRINT", 0, pl.totalXp, {}, apiCalls[i].chainId) :
        w \in apiCalls[i].wallet,
        pl \in {q \in apiCalls[i].player : q.totalXp > 0}}

\* await backendApi.registerPlayer(...) settles with the 201 of the backend:
\* the XP is sent as one score when there is any, or the call returns
syncToLeaderboard_registered(i) ==
    /\ apiCalls[i].op = "syncToLeaderboard"
    /\ apiCalls[i].pc = "registerPlayer"
    /\ Answered(i, "POST /players")
    /\ IF syncToLeaderboard_xp(i) # {}
       THEN /\ apiCalls' = [apiCalls EXCEPT ![i].pc = "submitScore"]
            /\ sent' = sent \o
                   [j \in 1..1 |->
                       [call |-> i, delivered |-> FALSE,
                        request |-> CHOOSE r \in syncToLeaderboard_xp(i) : TRUE]]
       ELSE /\ apiCalls' = [apiCalls EXCEPT ![i].pc = "returned"]
            /\ UNCHANGED sent
    /\ UNCHANGED <<server, wasmInit, leaderboardHook, connection, appConnection,
                   adapter, ledger>>

\* await backendApi.submitScore(...) settles with the 201 of the backend
syncToLeaderboard_submitted(i) ==
    /\ apiCalls[i].op = "syncToLeaderboard"
    /\ apiCalls[i].pc = "submitScore"
    /\ Answered(i, "POST /scores")
    /\ apiCalls' = [apiCalls EXCEPT ![i].pc = "returned"]
    /\ UNCHANGED <<server, wasmInit, leaderboardHook, connection, appConnection,
                   adapter, ledger, sent>>

\* fetch() of post(): the request s reaches the backend, whose handler
\* runs; requests issued without awaiting arrive in any order
post(s) ==
    /\ ~sent[s].delivered
    /\ sent' = [sent EXCEPT ![s].delivered = TRUE]
    /\ IF sent[s].request.endpoint = "POST /players"
       THEN PostPlayers_handler(sent[s].request.apiKey, sent[s].request.body)
       ELSE PostScores_handler(sent[s].request.apiKey, sent[s].request.body, MaxScores)
    /\ UNCHANGED <<wasmInit, leaderboardHook, connection, appConnection, adapter,
                   apiCalls, ledger>>

----
\* frontend types/index.ts: the level arithmetic of the client

\* calculateLevel with Math.round in the place of Math.floor
calculateLevel_round(xp) == (FloorSqrt(4 * xp, 100) + 1) \div 2 + 1

\* Math.floor(Math.sqrt(xp / 100)) + 1
calculateLevel(xp) == FloorSqrt(xp, 100) + 1

\* Math.pow(level, 2) * 100
xpForLevel(level) == level * level * 100

----
InitServer(backends, envs) ==
    /\ backend \in backends
    /\ env \in envs
    /\ players = <<>>
    /\ scores = <<>>
    /\ nextPlayerId = 1
    /\ nextScoreId = 1
    /\ stats = [total_players |-> 0, total_games_played |-> 0, total_xp_earned |-> 0]
    /\ now = 0
    /\ inflight = <<>>
    /\ res = Response("none", 0)

InitWith(backends, envs) == InitServer(backends, envs) /\ InitFrontend

\* The development deployment: the in-memory store behind the routes
Init == InitWith({"memory"}, {DevEnv})

Next ==
    \/ \E r \in RegisterRequests : PostPlayers(r[1], r[2])
    \/ \E r \in ScoreRequests : PostScores(r[1], r[2])
    \/ \E i \in DOMAIN inflight : PostScoresResume(i)
    \/ Tick

Spec == Init /\ [][Next]_vars

\* The same deployment with the clock standing still and room for more
\* ScoreRecords: the score boards do not depend on the time of day
NextBoard ==
    \/ \E r \in RegisterRequests : PostPlayers(r[1], r[2])
    \/ \E r \in ScoreRequests : PostScoresCapped(r[1], r[2], MaxBoardScores)
    \/ \E i \in DOMAIN inflight : PostScoresResume(i)

SpecBoard == Init /\ [][NextBoard]_vars

\* The development deployment with the clock standing still
NextNoClock ==
    \/ \E r \in RegisterRequests : PostPlayers(r[1], r[2])
    \/ \E r \in ScoreRequests : PostScores(r[1], r[2])
    \/ \E i \in DOMAIN inflight : PostScoresResume(i)

SpecNoClock == Init /\ [][NextNoClock]_vars

\* The development deployment after the player 0xabcdef01 has registered and
\* has submitted RepeatedScore n times, all at time 0
InitAfter(n) ==
    /\ backend = "memory"
    /\ env = DevEnv
    /\ players = <<[id |-> 1,
                    wallet_address |-> WalletA,
                    username |-> NameNeo,
                    total_xp |-> n * valueOf(RepeatedScore.xp_earned),
                    level |-> FloorSqrt(n * valueOf(RepeatedScore.xp_earned), 100) + 1,
                    games_played |-> n,
                    chain_id |-> {},
                    registered_at |-> 0,
                    updated_at |-> 0]>>
    /\ scores = [i \in 1..n |->
                   [id |-> i,
                    player_wallet |-> WalletA,
                    game_type |-> RepeatedScore.game_type,
                    score |-> valueOf(RepeatedScore.score),
                    xp_earned |-> valueOf(RepeatedScore.xp_earned),
                    bonus_data |-> numberOrNull(RepeatedScore.bonus_data),
                    chain_id |-> stringOrNull(RepeatedScore.chain_id),
                    submitted_at |-> 0]]
    /\ nextPlayerId = 2
    /\ nextScoreId = n + 1
    /\ stats = [total_players |-> 1,
                total_games_played |-> n,
                total_xp_earned |-> n * valueOf(RepeatedScore.xp_earned)]
    /\ now = 0
    /\ inflight = <<>>
    /\ res = Response("none", 0)
    /\ InitFrontend

\* A store that already holds as many ScoreRecords as /scores/recent may
\* answer, receiving more submissions and list requests
InitLoaded == InitAfter(RecentCap)

NextLoaded ==
    \/ PostScoresCapped({}, RepeatedScore, RecentCap + MaxScores)
    \/ \E i \in DOMAIN inflight : PostScoresResume(i)
    \/ \E q \in LimitQueries : ServeScoresRecent(q)
    \/ \E q \in LimitQueries : ServeLeaderboard(q)
    \/ Tick

SpecLoaded == InitLoaded /\ [][NextLoaded]_vars

\* Any configuration of the server, with requests under every kind of key
InitAuth == InitWith({"memory"}, Envs)

NextAuth ==
    \/ \E r \in AuthRegisterRequests : PostPlayers(r[1], r[2])
    \/ \E r \in AuthScoreRequests : PostScores(r[1], r[2])
    \/ \E i \in DOMAIN inflight : PostScoresResume(i)
    \/ Tick

SpecAuth == InitAuth /\ [][NextAuth]_vars

\* The production store: the repositories over PostgreSQL
InitPg == InitWith({"postgres"}, {DevEnv})

NextPg ==
    \/ \E input \in PgPlayerInputs : pgCreatePlayer(input)
    \/ \E i \in DOMAIN inflight : pgCreatePlayerStats(i)
    \/ \E input \in PgXpInputs : pgUpdatePlayerXP(input)
    \/ \E input \in PgScoreInputs : pgCreateScore(input)
    \/ \E i \in DOMAIN inflight : pgCreateScoreGames(i)
    \/ \E i \in DOMAIN inflight : pgCreateScoreXp(i)
    \/ Tick

SpecPg == InitPg /\ [][NextPg]_vars

\* Two registrations of one identity in flight together, on either store
RacePlayerInputs == {r[2] : r \in RaceRegisterRequests}

RaceXpInputs == {[wallet_address |-> WalletAMixed, xp_earned |-> 100]}

NextRace ==
    \/ \E r \in RaceRegisterRequests : PostPlayers(r[1], r[2])
    \/ \E r \in RaceScoreRequests : PostScores(r[1], r[2])
    \/ \E i \in DOMAIN inflight : PostScoresResume(i)
    \/ \E input \in RacePlayerInputs : pgCreatePlayerCapped(input, MaxRacers)
    \/ \E i \in DOMAIN inflight : pgCreatePlayerStats(i)
    \/ \E input \in RaceXpInputs : pgUpdatePlayerXP(input)
    \/ Tick

SpecRace == InitWith({"memory", "postgres"}, {DevEnv}) /\ [][NextRace]_vars

\* The browser initializing the WASM module
NextWasm ==
    \/ ensureWasmInitialized
    \/ \E p \in DOMAIN promises : \E loaded \in BOOLEAN : getLineraModule(p, loaded)
    \/ \E p \in DOMAIN promises : \E outcome \in InitializeOutcomes : initialize(p, outcome)
    \/ resetWasmState

SpecWasm == Init /\ [][NextWasm]_vars

\* The development deployment with the clock standing still, serving writes
\* and every read endpoint
NextReads ==
    \/ \E r \in ReadsRegisterRequests : PostPlayers(r[1], r[2])
    \/ \E r \in ReadsScoreRequests : PostScores(r[1], r[2])
    \/ \E i \in DOMAIN inflight : PostScoresResume(i)
    \/ ServePlayers
    \/ \E w \in LookupWallets : ServePlayer(w)
    \/ \E q \in ReadLimits : ServeLeaderboard(q)
    \/ \E w \in LookupWallets : ServeRank(w)
    \/ \E q \in ReadLimits : ServeScoresRecent(q)
    \/ \E g \in LookupGames : \E q \in ReadLimits : ServeGameScores(g, q)
    \/ \E g \in LookupGames : \E q \in ReadLimits : ServeHighScores(g, q)
    \/ ServeStats

SpecReads == Init /\ [][NextReads]_vars

\* Either store holding one player whose first submission earned any amount
\* of XP up to MaxXp, and receiving one more submission
LevelDeltas == {0, 1, 99, 100}

LevelScoreRequests ==
    {<<{}, ScoreBody(WalletA, "SPEED_CLICKER", 10, d, {})>> : d \in LevelDeltas}

LevelXpInputs == {[wallet_address |-> WalletA, xp_earned |-> d] : d \in LevelDeltas}

InitLevel ==
    /\ backend \in {"memory", "postgres"}
    /\ env = DevEnv
    /\ now = 0
    /\ \E x \in 0..MaxXp :
          LET fresh == [id |-> 1, wallet_address |-> WalletA, username |-> NameNeo,
                        total_xp |-> 0, level |-> 1, games_played |-> 0,
                        chain_id |-> {}, registered_at |-> 0, updated_at |-> 0]
          IN /\ players = <<IF backend = "memory"
                             THEN updatePlayerXP_apply(fresh, x)
                             ELSE pgUpdatePlayerXP_set(fresh, x)>>
             /\ scores = <<[id |-> 1, player_wallet |-> WalletA,
                             game_type |-> "SPEED_CLICKER", score |-> 10,
                             xp_earned |-> x, bonus_data |-> {}, chain_id |-> {},
                             submitted_at |-> 0]>>
             /\ stats = [total_players |-> 1, total_games_played |-> 1,
                         total_xp_earned |-> x]
    /\ nextPlayerId = 2
    /\ nextScoreId = 2
    /\ inflight = <<>>
    /\ res = Response("none", 0)
    /\ InitFrontend

NextLevel ==
    \/ \E r \in LevelScoreRequests : PostScores(r[1], r[2])
    \/ \E i \in DOMAIN inflight : PostScoresResume(i)
    \/ \E input \in LevelXpInputs : pgUpdatePlayerXP(input)

SpecLevel == InitLevel /\ [][NextLevel]_vars

\* The browser of one player: the adapter connects and disconnects, and the
\* arcade client registers and submits scores
ClientWallets == {WalletAMixed}

\* The browser once the hook has connected the wallet: connect() has
\* initialized the WASM and claimed the first chain, and connectApplication()
\* has returned
InitConnected ==
    /\ InitServer({"memory"}, {DevEnv})
    /\ initPromise = {1}
    /\ initialized = TRUE
    /\ lineraModule = TRUE
    /\ promises = <<[pc |-> "resolved", invoked |-> TRUE]>>
    /\ callers = <<{1}>>
    /\ resets = 0
    /\ connection = {[address |-> toLowerCase(w), chainId |-> ChainIds[1]] : w \in ClientWallets}
    /\ appConnection = {[chainId |-> ChainIds[1]]}
    /\ connectPromise = {}
    /\ attempts = <<[address |-> toLowerCase(CHOOSE w \in ClientWallets : TRUE),
                     pc |-> "resolved", wasm |-> 1]>>
    /\ connectCalls = <<[wallet |-> toLowerCase(CHOOSE w \in ClientWallets : TRUE),
                         promise |-> {1}, pc |-> "returned", value |-> connection,
                         epoch |-> 0]>>
    /\ appCalls = <<[chainId |-> {ChainIds[1]}, pc |-> "returned"]>>
    /\ disconnects = 0
    /\ InitLeaderboard
    /\ apiCalls = <<>>
    /\ ledger = <<>>
    /\ sent = <<>>

ClientNames == {NameNeo}

ClientScores == {<<"SPEED_CLICKER", 5, {}>>, <<"MEMORY_MATRIX", 1, {2}>>}

NextArcade ==
    \/ \E w \in ClientWallets : lineraAdapter_connect(w)
    \/ \E a \in DOMAIN attempts : performConnect_wasm(a)
    \/ \E a \in DOMAIN attempts : \E outcome \in FaucetOutcomes : performConnect(a, outcome)
    \/ lineraAdapter_connectApplication
    \/ \E i \in DOMAIN appCalls : \E outcome \in FaucetOutcomes : connectApplication(i, outcome)
    \/ lineraAdapter_disconnect
    \/ \E n \in ClientNames : arcadeApi_registerPlayer(n)
    \/ \E s \in ClientScores : arcadeApi_submitScore(s[1], s[2], s[3])
    \/ \E i \in DOMAIN apiCalls : \E outcome \in QueryOutcomes : lineraAdapter_mutate(i, outcome)

SpecArcade == InitConnected /\ [][NextArcade]_vars

\* The Linera adapter of one browser: connect for two wallets,
\* connectApplication and disconnect, with the WASM initializer that
\* performConnect calls
ConnectWallets == {WalletAMixed, WalletB, <<>>}

NextAdapter ==
    \/ \E w \in ConnectWallets : lineraAdapter_connect(w)
    \/ \E a \in DOMAIN attempts : performConnect_wasm(a)
    \/ \E a \in DOMAIN attempts : \E outcome \in FaucetOutcomes : performConnect(a, outcome)
    \/ lineraAdapter_connectApplication
    \/ \E i \in DOMAIN appCalls : \E outcome \in FaucetOutcomes : connectApplication(i, outcome)
    \/ lineraAdapter_disconnect
    \/ \E p \in DOMAIN promises : \E loaded \in BOOLEAN : getLineraModule(p, loaded)
    \/ \E p \in DOMAIN promises : \E outcome \in InitializeOutcomes : initialize(p, outcome)

SpecAdapter == Init /\ [][NextAdapter]_vars

\* The leaderboard page polling the development deployment while a player
\* registers and submits scores
LeaderboardRegisterRequests == {<<{}, RegisterBody(WalletA, NameNeo, {})>>}

LeaderboardScoreRequests == {<<{}, ScoreBody(WalletA, "SPEED_CLICKER", 50, 100, {})>>}

AnsweredGameTypes == {HookGameTypes, HookGameTypes \ {"SPEED_CLICKER"}, {}}

NextLeaderboard ==
    \/ \E r \in LeaderboardRegisterRequests : PostPlayers(r[1], r[2])
    \/ \E r \in LeaderboardScoreRequests : PostScores(r[1], r[2])
    \/ \E i \in DOMAIN inflight : PostScoresResume(i)
    \/ useLeaderboard_refresh
    \/ \E i \in DOMAIN refreshes : \E ok \in BOOLEAN : refresh_getLeaderboard(i, ok)
    \/ \E i \in DOMAIN refreshes : \E ok \in BOOLEAN : refresh_getStats(i, ok)
    \/ \E i \in DOMAIN refreshes : \E answered \in AnsweredGameTypes :
          refresh_getGameHighScores(i, answered)

SpecLeaderboard == Init /\ [][NextLeaderboard]_vars

\* The browser of one connected player syncing to the development
\* deployment: each request the arcade client issues reaches the backend
\* at some later time
NextSync ==
    \/ \E n \in ClientNames : arcadeApi_registerPlayer(n)
    \/ \E s \in ClientScores : arcadeApi_submitScore(s[1], s[2], s[3])
    \/ \E i \in DOMAIN apiCalls : \E outcome \in QueryOutcomes : lineraAdapter_mutate(i, outcome)
    \/ \E s \in DOMAIN sent : post(s)
    \/ \E i \in DOMAIN inflight : PostScoresResume(i)
    \/ arcadeApi_syncToLeaderboard
    \/ \E i \in DOMAIN apiCalls : \E outcome \in QueryOutcomes : syncToLeaderboard_query(i, outcome)
    \/ \E i \in DOMAIN apiCalls : syncToLeaderboard_registered(i)
    \/ \E i \in DOMAIN apiCalls : syncToLeaderboard_submitted(i)

SpecSync == InitConnected /\ [][NextSync]_vars

\* Either store
InitBoth == InitWith({"memory", "postgres"}, {DevEnv})

NextBoth == Next \/ NextPg

SpecBoth == InitBoth /\ [][NextBoth]_vars

----
\* Properties

\* The xp_earned of the records of scs whose player_wallet is wallet, summed
RECURSIVE SumXpEarned(_, _)
SumXpEarned(scs, wallet) ==
    IF scs = <<>> THEN 0
    ELSE (IF Head(scs).player_wallet = wallet THEN Head(scs).xp_earned ELSE 0)
         + SumXpEarned(Tail(scs), wallet)

\* No request is suspended half-way
Quiescent == inflight = <<>>

\* C1: a POST /scores that passes validation for an identity with no
\* PlayerRecord is answered 404 and leaves players, scores and the counters
\* as they were.
C1_UnregisteredSubmitRejected ==
    [][/\ \A r \in ScoreRequests :
            (/\ PostScores(r[1], r[2])
             /\ requireApiKey(r[1])
             /\ SubmitScoreSchema(r[2])
             /\ IndexOf(toLowerCase(r[2].wallet_address)) = 0)
            => UNCHANGED <<players, scores, stats>>
       /\ \A i \in DOMAIN inflight :
            (/\ PostScoresResume(i)
             /\ IndexOf(toLowerCase(inflight[i].req.wallet_address)) = 0)
            => (UNCHANGED <<players, scores, stats>> /\ res'.status = 404)]_vars

\* C2: once every accepted POST /scores has run to its end, each player's
\* total_xp is the sum of xp_earned over the ScoreRecords accepted for that
\* player.
C2_TotalXpIsSumOfAccepted ==
    Quiescent =>
        \A i \in DOMAIN players :
            players[i].total_xp = SumXpEarned(scores, players[i].wallet_address)

KeepsCounters(before, after) ==
    /\ after.id = before.id
    /\ after.wallet_address = before.wallet_address
    /\ after.total_xp = before.total_xp
    /\ after.level = before.level
    /\ after.games_played = before.games_played
    /\ after.chain_id = before.chain_id
    /\ after.registered_at = before.registered_at

\* The step re-registers the identity `wallet` under the name `name`
ReRegistered(wallet, name) ==
    LET k == IndexOf(wallet)
    IN /\ Len(players') = Len(players)
       /\ \A j \in DOMAIN players :
             IF j = k
             THEN /\ players'[j].username = name
                  /\ players'[j].updated_at = now
                  /\ KeepsCounters(players[j], players'[j])
             ELSE players'[j] = players[j]
       /\ scores' = scores

\* C4: registering an identity that already has a PlayerRecord changes only
\* username and updated_at of that record; total_xp, games_played and level
\* (and every other record) keep their values.
C4_ReRegisterKeepsCounters ==
    [][/\ \A r \in RegisterRequests :
            (/\ res'.op = "POST /players" /\ res'.status = 201
             /\ inflight' = inflight /\ now' = now
             /\ requireApiKey(r[1])
             /\ RegisterPlayerSchema(r[2])
             /\ IndexOf(toLowerCase(r[2].wallet_address)) # 0
             /\ PostPlayers(r[1], r[2]))
            => ReRegistered(toLowerCase(r[2].wallet_address), r[2].username)
       /\ \A input \in PgPlayerInputs :
            (/\ nextPlayerId' = nextPlayerId + 1
             /\ IndexOf(toLowerCase(input.wallet_address)) # 0
             /\ pgCreatePlayer(input))
            => ReRegistered(toLowerCase(input.wallet_address), input.username)]_vars

\* C4 witness: a player who has XP carries the name and the missing chain_id
\* that only a first registration as "neo" followed by a re-registration as
\* "Max_7" produces
C4_Witness ==
    \E k \in DOMAIN players :
        /\ players[k].username = NameMax
        /\ players[k].chain_id = {}
        /\ players[k].total_xp > 0
        /\ players[k].games_played > 0

\* C5: when no call is suspended, the total_players counter is the number of
\* distinct registered identities.
C5_TotalPlayersCountsIdentities ==
    Quiescent => stats.total_players = Cardinality(Wallets)

C7_TiesByAscendingKey ==
    LET lb == memoryDb_getLeaderboard(Len(players))
    IN \A i \in DOMAIN lb : \A j \in DOMAIN lb :
          (i < j /\ lb[i].total_xp = lb[j].total_xp)
          => StrLess(lb[i].wallet_address, lb[j].wallet_address)

\* The 1-indexed positions of wallet in the leaderboard lb, as a set
PositionIn(lb, wallet) == {i \in DOMAIN lb : lb[i].wallet_address = wallet}

\* C8: the rank answered for a registered player is the player's position in
\* the full leaderboard of the same state, and null for an unregistered
\* identity, whatever results the store may return.
C8_RankIsLeaderboardPosition ==
    \A w \in LookupWallets :
        IF backend = "memory"
        THEN memoryDb_getPlayerRank(w)
                = PositionIn(memoryDb_getLeaderboard(Len(players)), toLowerCase(w))
        ELSE \A r \in pg_getPlayerRank(w) : \A lb \in pg_getLeaderboard(Len(players)) :
                r = PositionIn(lb, toLowerCase(w))

\* The greatest score among the ScoreRecords of wallet for gameType
BestOf(wallet, gameType) ==
    LET mine == {i \in DOMAIN scores : /\ scores[i].player_wallet = wallet
                                      /\ scores[i].game_type = gameType}
    IN scores[CHOOSE i \in mine : \A j \in mine : scores[j].score <= scores[i].score].score

\* The wallets that have a ScoreRecord for gameType
Scorers(gameType) ==
    {scores[i].player_wallet : i \in {j \in DOMAIN scores : scores[j].game_type = gameType}}

\* hs holds one entry per player, each with the player's greatest score, and
\* holds every scorer when the limit allows
OneBestPerPlayer(hs, gameType, limit) ==
    /\ \A i \in DOMAIN hs : \A j \in DOMAIN hs :
          i # j => hs[i].player_wallet # hs[j].player_wallet
    /\ \A i \in DOMAIN hs :
          /\ hs[i].player_wallet \in Scorers(gameType)
          /\ hs[i].score = BestOf(hs[i].player_wallet, gameType)
    /\ Len(hs) = Min(limit, Cardinality(Scorers(gameType)))

\* C9: the high scores of a game hold at most one entry per player, carrying
\* the maximum score of that player's ScoreRecords for the game.
C9_HighScoresOneBestPerPlayer ==
    \A g \in LookupGames : \A N \in 1..(MaxScores + 1) :
        IF backend = "memory"
        THEN /\ OneBestPerPlayer(memoryDb_getGameHighScores(g, N), g, N)
             /\ LET body == GetHighScores(g, {N})
                IN /\ Len(body) = Len(memoryDb_getGameHighScores(g, N))
                   /\ \A i \in DOMAIN body : body[i].score = BestOf(body[i].player, g)
        ELSE \A hs \in pg_getGameHighScores(g, N) : OneBestPerPlayer(hs, g, N)

\* C9 witness: a player scored 10 and then 50 in SPEED_CLICKER and something
\* in another game, and the board of SPEED_CLICKER shows the 50
C9_Witness ==
    /\ backend = "memory"
    /\ Len(scores) = 2
    /\ scores[1].player_wallet = scores[2].player_wallet
    /\ scores[1].game_type = "SPEED_CLICKER" /\ scores[1].score = 10
    /\ scores[2].game_type = "SPEED_CLICKER" /\ scores[2].score = 50
    /\ Len(memoryDb_getGameHighScores("SPEED_CLICKER", 3)) = 1
    /\ memoryDb_getGameHighScores("SPEED_CLICKER", 3)[1].score = 50

\* The earliest ScoreRecord of wallet for gameType that has the score best
EarliestWith(wallet, gameType, best) ==
    LET tied == {i \in DOMAIN scores : /\ scores[i].player_wallet = wallet
                                       /\ scores[i].game_type = gameType
                                       /\ scores[i].score = best}
    IN scores[CHOOSE i \in tied : \A j \in tied : scores[i].id <= scores[j].id]

\* Every entry of hs is taken from the earliest record with its score
EarliestOfTied(hs, gameType) ==
    \A i \in DOMAIN hs :
        LET first == EarliestWith(hs[i].player_wallet, gameType, hs[i].score)
        IN /\ hs[i].xp_earned = first.xp_earned
           /\ hs[i].submitted_at = first.submitted_at

\* C10: when several ScoreRecords of a player share the maximal score of a
\* game, the entry shown is the one submitted earliest, whatever results the
\* store may return.
C10_EarliestOfTiedBest ==
    \A g \in LookupGames :
        IF backend = "memory"
        THEN EarliestOfTied(memoryDb_getGameHighScores(g, MaxScores + 1), g)
        ELSE \A hs \in pg_getGameHighScores(g, MaxScores + 1) : EarliestOfTied(hs, g)

\* C11: the high scores of a game are the best entries of the min(limit,
\* number of scorers) best players, one per player, in descending order of
\* score and ranked 1..k; no scorer left out has a better best score than an
\* entry shown.
C11_HighScoresRankedAfterDedup ==
    \A g \in LookupGames : \A N \in 1..(MaxBoardScores + 1) :
        LET hs == memoryDb_getGameHighScores(g, N)
            body == GetHighScores(g, {N})
            shown == {hs[i].player_wallet : i \in DOMAIN hs}
        IN /\ Len(hs) = Min(N, Cardinality(Scorers(g)))
           /\ Len(body) = Len(hs)
           /\ Cardinality(shown) = Len(hs)
           /\ \A i \in DOMAIN hs :
                 /\ hs[i].rank = i
                 /\ body[i].rank = i
                 /\ hs[i].score = BestOf(hs[i].player_wallet, g)
                 /\ body[i].score = hs[i].score
                 /\ \A j \in DOMAIN hs : i < j => hs[i].score >= hs[j].score
                 /\ \A w \in Scorers(g) \ shown : BestOf(w, g) <= hs[i].score
           /\ shown \subseteq Scorers(g)

\* C11 witness: one player holds the two greatest scores of SPEED_CLICKER,
\* another player a lower one, and the board of two entries shows both players
C11_Witness ==
    /\ Len(scores) = 3
    /\ \A i \in DOMAIN scores : scores[i].game_type = "SPEED_CLICKER"
    /\ scores[1].player_wallet = scores[2].player_wallet
    /\ scores[3].player_wallet # scores[1].player_wallet
    /\ scores[3].score < scores[1].score /\ scores[3].score < scores[2].score
    /\ Len(GetHighScores("SPEED_CLICKER", {2})) = 2
    /\ GetHighScores("SPEED_CLICKER", {2})[2].player = scores[3].player_wallet
    /\ GetHighScores("SPEED_CLICKER", {2})[2].rank = 2

\* The xp_earned of the records of scs, summed
RECURSIVE SumAllXpEarned(_)
SumAllXpEarned(scs) ==
    IF scs = <<>> THEN 0 ELSE Head(scs).xp_earned + SumAllXpEarned(Tail(scs))

\* C12: in every state total_games_played is the number of ScoreRecords and
\* total_xp_earned is the sum of their xp_earned.
C12_CountersMatchLedger ==
    /\ stats.total_games_played = Len(scores)
    /\ stats.total_xp_earned = SumAllXpEarned(scores)

\* The number of records of scs whose player_wallet is wallet
RECURSIVE CountScores(_, _)
CountScores(scs, wallet) ==
    IF scs = <<>> THEN 0
    ELSE (IF Head(scs).player_wallet = wallet THEN 1 ELSE 0) + CountScores(Tail(scs), wallet)

\* The identities that have a PlayerRecord or a ScoreRecord
KnownWallets == Wallets \cup {scores[i].player_wallet : i \in DOMAIN scores}

\* C13: whatever a request sees, a submission is applied wholly or not at
\* all: every identity with ScoreRecords has a PlayerRecord, whose
\* games_played and total_xp account for exactly those records.
C13_SubmitScoreAllOrNothing ==
    \A w \in KnownWallets :
        /\ IndexOf(w) # 0
        /\ PlayerOf(w).games_played = CountScores(scores, w)
        /\ PlayerOf(w).total_xp = SumXpEarned(scores, w)

\* The header apiKey is absent or differs from the configured secret
BadCredential(apiKey) == apiKey = {} \/ apiKey # env.API_SECRET_KEY

\* The step answers 401 to op and leaves the store as it was
Rejected401(op) ==
    /\ res' = Response(op, 401)
    /\ UNCHANGED <<store, inflight>>

\* C14 as stated: in every configuration, a write request whose credential
\* is absent or does not match is answered 401 and changes no storage.
C14_BadCredentialRejectedEverywhere ==
    [][/\ \A r \in AuthRegisterRequests :
            (BadCredential(r[1]) /\ PostPlayers(r[1], r[2])) => Rejected401("POST /players")
       /\ \A r \in AuthScoreRequests :
            (BadCredential(r[1]) /\ PostScores(r[1], r[2])) => Rejected401("POST /scores")]_vars

\* C14 amended: unless NODE_ENV is "development", a write request whose
\* credential is absent or does not match is answered 401 and changes no
\* storage.
C14_BadCredentialRejectedOutsideDevelopment ==
    [][env.NODE_ENV # "development" =>
        /\ \A r \in AuthRegisterRequests :
              (BadCredential(r[1]) /\ PostPlayers(r[1], r[2])) => Rejected401("POST /players")
        /\ \A r \in AuthScoreRequests :
              (BadCredential(r[1]) /\ PostScores(r[1], r[2])) => Rejected401("POST /scores")]_vars

\* C14 witness: a production server that holds a player and a score, both
\* written under the secret, has just answered 401 to a POST /scores
C14_Witness ==
    /\ env.NODE_ENV = "production"
    /\ Len(players) = 1
    /\ Len(scores) = 1
    /\ res = Response("POST /scores", 401)

\* The name is shorter than 3 or longer than 20 characters or holds a
\* character that is no ASCII letter, digit, underscore or hyphen
BadDisplayName(name) ==
    \/ Len(name) < 3
    \/ Len(name) > 20
    \/ \E i \in DOMAIN name :
          LET c == CharCode(name[i])
          IN ~(\/ (48 <= c /\ c <= 57)
               \/ (65 <= c /\ c <= 90)
               \/ (97 <= c /\ c <= 122)
               \/ c = 95
               \/ c = 45)

\* C15: a POST /players with such a name is answered 400 and leaves the
\* players and the counters as they were.
C15_BadDisplayNameRejected ==
    [][\A r \in RegisterRequests :
          (/\ res'.op = "POST /players" /\ now' = now
           /\ BadDisplayName(r[2].username)
           /\ PostPlayers(r[1], r[2]))
          => (res' = Response("POST /players", 400) /\ UNCHANGED <<store, inflight>>)]_vars

\* C15 witness: with both identities registered under valid names, a POST
\* /players has just been answered 400
C15_Witness ==
    /\ res = Response("POST /players", 400)
    /\ Len(players) = 2
    /\ stats.total_players = 2
    /\ \A i \in DOMAIN players : ~BadDisplayName(players[i].username)

\* The JSON number v is negative or is not an integer
BadAmount(v) == v[1] < 0 \/ v[1] % v[2] # 0

\* The body names no known game or carries a bad score or xp_earned
BadSubmission(body) ==
    \/ body.game_type \notin GameTypes
    \/ BadAmount(body.score)
    \/ BadAmount(body.xp_earned)

\* C16: a POST /scores with an unknown game_type or with a negative or
\* non-integer score or xp_earned is answered 400 and changes no player, no
\* ScoreRecord and no counter.
C16_BadSubmissionRejected ==
    [][\A r \in ScoreRequests :
          (/\ BadSubmission(r[2])
           /\ res'.op = "POST /scores" /\ now' = now
           /\ PostScores(r[1], r[2]))
          => (res' = Response("POST /scores", 400) /\ UNCHANGED <<store, inflight>>)]_vars

\* C16 witness: with a player registered and a score accepted, a POST
\* /scores has just been answered 400
C16_Witness ==
    /\ res = Response("POST /scores", 400)
    /\ Len(players) >= 1
    /\ Len(scores) = 1
    /\ stats.total_games_played = 1
    /\ players[1].games_played = 1

\* C17: once every accepted POST /scores has run to its end, each player's
\* games_played is the number of ScoreRecords that carry the player's key.
C17_GamesPlayedCountsRecords ==
    Quiescent =>
        \A i \in DOMAIN players :
            players[i].games_played = CountScores(scores, players[i].wallet_address)

\* The stored keys are lower-case and pairwise distinct, and every lookup
\* answers the same for two identifiers that differ only in letter case
CaseInsensitive ==
    /\ \A i \in DOMAIN players :
          /\ players[i].wallet_address = toLowerCase(players[i].wallet_address)
          /\ \A j \in DOMAIN players : i # j =>
                players[i].wallet_address # players[j].wallet_address
    /\ \A i \in DOMAIN scores :
          scores[i].player_wallet = toLowerCase(scores[i].player_wallet)
    /\ \A w \in LookupWallets :
          /\ GetRank(w) = GetRank(toLowerCase(w))
          /\ GetPlayer(w) = GetPlayer(toLowerCase(w))

\* C18: identifiers that differ only in letter case address one
\* PlayerRecord: in every state a request finds, the directory and the
\* lookups are case-insensitive, and a submission under any spelling of a
\* registered key is credited to that key's record.
C18_KeysCaseInsensitive ==
    [][/\ CaseInsensitive
       /\ \A i \in DOMAIN inflight :
            LET k == IndexOf(toLowerCase(inflight[i].req.wallet_address))
            IN (/\ res'.op = "POST /scores" /\ Len(inflight') < Len(inflight)
                /\ k # 0
                /\ PostScoresResume(i))
               => /\ players'[k].games_played = players[k].games_played + 1
                  /\ players'[k].total_xp
                        = players[k].total_xp + valueOf(inflight[i].req.xp_earned)]_vars

\* C18 witness: the identity registered as 0xabcdef01 has been re-registered
\* and has submitted a score as 0xAbCdEf01; the directory holds one record,
\* which carries the new name and the XP
C18_Witness ==
    /\ Len(players) = 1
    /\ players[1].wallet_address = WalletA
    /\ players[1].username = NameMax
    /\ players[1].chain_id = {}
    /\ players[1].total_xp = 300
    /\ Len(scores) = 1
    /\ scores[1].bonus_data = {5}
    /\ scores[1].player_wallet = WalletA
    /\ GetRank(WalletAMixed) = {1}

\* C19: a player with strictly more total_xp than another stands before the
\* other in the leaderboard, with a smaller rank, and is answered a smaller
\* rank by getPlayerRank, whoever registered first.
C19_MoreXpRanksFirst ==
    LET lb == memoryDb_getLeaderboard(Len(players))
    IN \A i \in DOMAIN players : \A j \in DOMAIN players :
          players[i].total_xp > players[j].total_xp =>
              LET wi == players[i].wallet_address
                  wj == players[j].wallet_address
              IN /\ \A pi \in PositionIn(lb, wi) : \A pj \in PositionIn(lb, wj) :
                       pi < pj /\ lb[pi].rank < lb[pj].rank
                 /\ PositionIn(lb, wi) # {} /\ PositionIn(lb, wj) # {}
                 /\ \A ri \in memoryDb_getPlayerRank(wi) :
                       \A rj \in memoryDb_getPlayerRank(wj) : ri < rj
                 /\ memoryDb_getPlayerRank(wi) # {} /\ memoryDb_getPlayerRank(wj) # {}

\* C19 witness: the player registered second has earned more than the one
\* registered first, and holds rank 1
C19_Witness ==
    /\ Len(players) = 2
    /\ players[1].total_xp > 0
    /\ players[2].total_xp > players[1].total_xp
    /\ GetRank(players[2].wallet_address) = {1}
    /\ GetRank(players[1].wallet_address) = {2}
    /\ GetLeaderboard({})[1].walletAddress = players[2].wallet_address

\* C20: whatever limit is asked for, /scores/recent answers at most
\* RecentCap rows, and at most limit rows for a limit from 1 to RecentCap;
\* /leaderboard answers at most LeaderboardCap rows.
C20_ListResponsesBounded ==
    /\ res.op = "GET /scores/recent" =>
          /\ res.count <= RecentCap
          /\ \A l \in res.limit : (1 <= l /\ l <= RecentCap) => res.count <= l
    /\ res.op = "GET /leaderboard" => res.count <= LeaderboardCap


\* The results getGlobalStats may return in the store of this deployment
GlobalStatsResults ==
    IF backend = "memory" THEN {GetStats} ELSE pg_getGlobalStats

\* C21: globalStats reports topXp equal to the greatest total_xp of the
\* PlayerRecords and highestLevel equal to the level of a player who has it,
\* which is the greatest level of all; with no player it reports 0 and 1.
C21_TopXpAndHighestLevel ==
    \A gs \in GlobalStatsResults :
        IF players = <<>>
        THEN gs.topXp = 0 /\ gs.highestLevel = 1
        ELSE /\ \A i \in DOMAIN players :
                   players[i].total_xp <= gs.topXp /\ players[i].level <= gs.highestLevel
             /\ \E i \in DOMAIN players :
                   players[i].total_xp = gs.topXp /\ players[i].level = gs.highestLevel

\* C21 witness: the player registered second has more XP and a higher level
\* than the one registered first, and the stats show that player's values
C21_Witness ==
    /\ Len(players) = 2
    /\ players[2].total_xp > players[1].total_xp
    /\ players[2].level > players[1].level
    /\ players[1].total_xp > 0
    /\ \A gs \in GlobalStatsResults :
          gs.topXp = players[2].total_xp /\ gs.highestLevel = players[2].level


\* Each identity has one PlayerRecord, a record without ScoreRecords has
\* zero counters, and once every call has run to its end total_players is
\* the number of identities
RegisteredOnce ==
    /\ \A i \in DOMAIN players : \A j \in DOMAIN players :
          i # j => players[i].wallet_address # players[j].wallet_address
    /\ Quiescent => stats.total_players = Cardinality(Wallets)

\* The step adds xp to the total_xp and 1 to the games_played of record k
Credited(k, xp) ==
    /\ players'[k].total_xp = players[k].total_xp + xp
    /\ players'[k].games_played = players[k].games_played + 1

\* C22: registrations of one identity that run together leave one
\* PlayerRecord, counted once in total_players, carrying the name of the
\* registration that committed last; a registration never undoes the XP and
\* games_played of a submission for the same key, and a submission that
\* meets a registration is still credited.
C22_ConcurrentRegistrationSafe ==
    [][/\ RegisteredOnce'
       /\ \A r \in RaceRegisterRequests :
             LET k == IndexOf(toLowerCase(r[2].wallet_address))
             IN (res'.op = "POST /players" /\ PostPlayers(r[1], r[2])) =>
                   /\ players'[IF k = 0 THEN Len(players') ELSE k].username = r[2].username
                   /\ k # 0 => (/\ players'[k].total_xp = players[k].total_xp
                                /\ players'[k].games_played = players[k].games_played)
                   /\ k = 0 => (/\ players'[Len(players')].total_xp = 0
                                /\ players'[Len(players')].games_played = 0
                                /\ stats'.total_players = stats.total_players + 1)
       /\ \A input \in RacePlayerInputs :
             LET k == IndexOf(toLowerCase(input.wallet_address))
             IN (nextPlayerId' # nextPlayerId /\ pgCreatePlayerCapped(input, MaxRacers)) =>
                   /\ players'[IF k = 0 THEN Len(players') ELSE k].username = input.username
                   /\ k # 0 => (/\ players'[k].total_xp = players[k].total_xp
                                /\ players'[k].games_played = players[k].games_played)
                   /\ k = 0 => (/\ players'[Len(players')].total_xp = 0
                                /\ players'[Len(players')].games_played = 0)
       /\ \A i \in DOMAIN inflight :
             LET k == IndexOf(toLowerCase(inflight[i].req.wallet_address))
             IN (/\ inflight[i].op = "POST /scores" /\ k # 0
                 /\ res'.op = "POST /scores" /\ PostScoresResume(i))
                => Credited(k, valueOf(inflight[i].req.xp_earned))
       /\ \A input \in RaceXpInputs :
             LET k == IndexOf(toLowerCase(input.wallet_address))
             IN (k # 0 /\ res'.op = "updatePlayerXP" /\ pgUpdatePlayerXP(input))
                => Credited(k, input.xp_earned)]_vars


\* The Promises whose initializer has not settled
Pending == {p \in DOMAIN promises : promises[p].pc \in {"import", "initialize"}}

\* C23 as stated: whatever calls were made, at most one initializer that
\* has not failed has invoked initialize(), at most one initialization is in
\* flight and every caller still waiting waits on it, and isWasmReady() is
\* true only when an initialization has completed.
C23_WasmInitializedOnce ==
    /\ Cardinality({p \in DOMAIN promises :
                       promises[p].invoked /\ promises[p].pc # "rejected"}) <= 1
    /\ Cardinality(Pending) <= 1
    /\ \A c \in DOMAIN callers : \A d \in DOMAIN callers :
          (callers[c] \subseteq Pending /\ callers[d] \subseteq Pending
           /\ callers[c] # {} /\ callers[d] # {}) => callers[c] = callers[d]
    /\ isWasmReady => \E p \in DOMAIN promises : promises[p].pc = "resolved"

\* C23 amended: the same, as long as resetWasmState has not been called.
C23_WasmInitializedOnceUnlessReset ==
    resets = 0 =>
        /\ Cardinality({p \in DOMAIN promises :
                           promises[p].invoked /\ promises[p].pc # "rejected"}) <= 1
        /\ Cardinality(Pending) <= 1
        /\ \A c \in DOMAIN callers : \A d \in DOMAIN callers :
              (callers[c] \subseteq Pending /\ callers[d] \subseteq Pending
               /\ callers[c] # {} /\ callers[d] # {}) => callers[c] = callers[d]
        /\ isWasmReady => \E p \in DOMAIN promises : promises[p].pc = "resolved"

\* C23 witness: without any reset, two calls waited on a first
\* initialization that failed inside initialize(), a third call started a
\* second one, which has completed
C23_Witness ==
    /\ resets = 0
    /\ callers = <<{1}, {1}, {2}>>
    /\ promises[1] = [pc |-> "rejected", invoked |-> TRUE]
    /\ promises[2] = [pc |-> "resolved", invoked |-> TRUE]
    /\ isWasmReady


\* C24: an accepted POST /scores for a registered player appends exactly one
\* ScoreRecord and adds 1 to total_games_played and xp_earned to
\* total_xp_earned when it starts, adds xp_earned to the player's total_xp
\* and 1 to the player's games_played when it completes, and leaves every
\* other PlayerRecord, every existing ScoreRecord and total_players as they
\* were.
C24_SubmitScoreEffect ==
    [][/\ \A r \in ScoreRequests :
            (/\ Len(scores') = Len(scores) + 1
             /\ IndexOf(toLowerCase(r[2].wallet_address)) # 0
             /\ PostScores(r[1], r[2]))
            => /\ SubSeq(scores', 1, Len(scores)) = scores
               /\ scores'[Len(scores')].player_wallet = toLowerCase(r[2].wallet_address)
               /\ scores'[Len(scores')].xp_earned = valueOf(r[2].xp_earned)
               /\ scores'[Len(scores')].score = valueOf(r[2].score)
               /\ scores'[Len(scores')].game_type = r[2].game_type
               /\ stats'.total_games_played = stats.total_games_played + 1
               /\ stats'.total_xp_earned = stats.total_xp_earned + valueOf(r[2].xp_earned)
               /\ stats'.total_players = stats.total_players
               /\ players' = players
       /\ \A i \in DOMAIN inflight :
            LET k == IndexOf(toLowerCase(inflight[i].req.wallet_address))
            IN (/\ Len(inflight') < Len(inflight)
                /\ k # 0
                /\ PostScoresResume(i))
               => /\ Credited(k, valueOf(inflight[i].req.xp_earned))
                  /\ Len(players') = Len(players)
                  /\ \A j \in DOMAIN players : j # k => players'[j] = players[j]
                  /\ players'[k].wallet_address = players[k].wallet_address
                  /\ players'[k].username = players[k].username
                  /\ scores' = scores
                  /\ stats' = stats
                  /\ res' = Response("POST /scores", 201)]_vars

\* C24 witness: with two players registered, the second has completed a
\* submission worth 100 XP and the first none
C24_Witness ==
    /\ Quiescent
    /\ res = Response("POST /scores", 201)
    /\ Len(players) = 2
    /\ players[1].total_xp = 0 /\ players[1].games_played = 0
    /\ players[2].total_xp = 100 /\ players[2].games_played = 1
    /\ Len(scores) = 1 /\ scores[1].player_wallet = players[2].wallet_address
    /\ stats = [total_players |-> 2, total_games_played |-> 1, total_xp_earned |-> 100]


\* C25: the ScoreRecords are append-only with strictly increasing ids: every
\* step keeps the records there were, unchanged and in place, and a record
\* it appends has an id greater than the id of every earlier record.
C25_LedgerAppendOnly ==
    [][/\ Len(scores') >= Len(scores)
       /\ SubSeq(scores', 1, Len(scores)) = scores
       /\ \A j \in (Len(scores) + 1)..Len(scores') :
             \A i \in 1..(j - 1) : scores'[i].id < scores'[j].id]_vars

\* C25 witness: two ScoreRecords of different players and games, the second
\* appended at a later time than the first, and the player of the first
\* re-registered since
C25_Witness ==
    /\ Len(scores) = 2
    /\ scores[1].id = 1 /\ scores[2].id = 2
    /\ scores[1].player_wallet # scores[2].player_wallet
    /\ scores[1].submitted_at < scores[2].submitted_at
    /\ Quiescent
    /\ \E k \in DOMAIN players :
          /\ players[k].wallet_address = scores[1].player_wallet
          /\ players[k].updated_at > scores[1].submitted_at


\* C26: total_players, total_games_played and total_xp_earned start at zero
\* and no step decreases any of them; no step decreases the total_xp of a
\* PlayerRecord.
C26_CountersNeverDecrease ==
    /\ stats = [total_players |-> 0, total_games_played |-> 0, total_xp_earned |-> 0]
    /\ [][/\ stats'.total_players >= stats.total_players
           /\ stats'.total_games_played >= stats.total_games_played
           /\ stats'.total_xp_earned >= stats.total_xp_earned
           /\ \A k \in DOMAIN players :
                 /\ k \in DOMAIN players'
                 /\ players'[k].wallet_address = players[k].wallet_address
                 /\ players'[k].total_xp >= players[k].total_xp]_vars

\* C26 witness: all three counters have grown, and a player who had earned
\* XP was re-registered at a later time and still has it
C26_Witness ==
    /\ stats.total_players >= 1
    /\ stats.total_games_played = 2
    /\ stats.total_xp_earned >= 100
    /\ \E k \in DOMAIN players :
          /\ players[k].total_xp >= 100
          /\ players[k].username = NameMax
          /\ players[k].updated_at > players[k].registered_at
          /\ \A i \in DOMAIN scores : scores[i].submitted_at < players[k].updated_at


\* C27: registration is one-way: a step keeps every PlayerRecord there was,
\* in its place, with its wallet_address, id and registered_at.
C27_RegistrationOneWay ==
    [][/\ Len(players') >= Len(players)
       /\ \A k \in DOMAIN players :
             /\ players'[k].wallet_address = players[k].wallet_address
             /\ players'[k].id = players[k].id
             /\ players'[k].registered_at = players[k].registered_at]_vars

\* C27 witness: a player registered at time 0 has been re-registered under
\* another name at a later time and has played since
C27_Witness ==
    /\ Len(players) = 2
    /\ players[1].registered_at = 0
    /\ players[1].updated_at = MaxTime
    /\ players[1].username = NameMax
    /\ players[1].games_played = 1
    /\ players[2].registered_at = MaxTime
    /\ now = MaxTime


\* The step serves one of the read endpoints
ReadStep ==
    \/ ServePlayers
    \/ \E w \in LookupWallets : ServePlayer(w)
    \/ \E q \in ReadLimits : ServeLeaderboard(q)
    \/ \E w \in LookupWallets : ServeRank(w)
    \/ \E q \in ReadLimits : ServeScoresRecent(q)
    \/ \E g \in LookupGames : \E q \in ReadLimits : ServeGameScores(g, q)
    \/ \E g \in LookupGames : \E q \in ReadLimits : ServeHighScores(g, q)
    \/ ServeStats

\* C28: a read request (player, players, leaderboard, rank, recent scores,
\* scores of a game, high scores, stats) leaves the players in their stored
\* order, the ScoreRecords in their stored order, the id counters, the
\* statistics and the suspended requests exactly as they were.
C28_ReadsChangeNothing ==
    [][(res'.status \in {200, 404} /\ ReadStep) =>
          /\ players' = players
          /\ scores' = scores
          /\ stats' = stats
          /\ nextPlayerId' = nextPlayerId /\ nextScoreId' = nextScoreId
          /\ inflight' = inflight]_vars

\* C28 witness: the leaderboard has just been served whole while the player
\* stored second has more XP than the player stored first and the record
\* stored second has a greater score than the record stored first
C28_Witness ==
    /\ res.op = "GET /leaderboard" /\ res.count = 2
    /\ Len(players) = 2
    /\ players[2].total_xp > players[1].total_xp
    /\ Len(scores) = 2
    /\ scores[2].score > scores[1].score
    /\ scores[1].game_type = scores[2].game_type


\* The levels up to the one of MaxXp + 100
LevelsChecked == 1..calculateLevel(MaxXp + 100)

SyncEndpoint(op) == IF op = "registerPlayer" THEN "POST /players" ELSE "POST /scores"

\* C30: every backend request the arcade client has issued belongs to a
\* call whose ledger mutation resolved with data, the ledger having accepted
\* that operation; a call whose mutation is still awaited or has failed has
\* issued no backend request; and no call has issued more than one.
C30_SyncOnlyAfterLedger ==
    /\ \A s \in DOMAIN sent :
          LET c == sent[s].call
          IN /\ c \in DOMAIN apiCalls
             /\ apiCalls[c].pc = "returned"
             /\ sent[s].request.endpoint = SyncEndpoint(apiCalls[c].op)
             /\ \E l \in DOMAIN ledger :
                   /\ ledger[l].call = c
                   /\ ledger[l].op = apiCalls[c].op
                   /\ ledger[l].args = apiCalls[c].args
             /\ \A t \in DOMAIN sent : sent[t].call = c => t = s
    /\ \A c \in DOMAIN apiCalls :
          apiCalls[c].pc \in {"mutate", "threw"} =>
              \A s \in DOMAIN sent : sent[s].call # c

\* C30 witness: a registration was accepted by the ledger and synced, a
\* score submission failed on the ledger and a second one is still awaited,
\* and one request has been issued in all
C30_Witness ==
    /\ Len(apiCalls) = 3
    /\ apiCalls[1].op = "registerPlayer" /\ apiCalls[1].pc = "returned"
    /\ apiCalls[2].op = "submitScore" /\ apiCalls[2].pc = "threw"
    /\ apiCalls[3].op = "submitScore" /\ apiCalls[3].pc = "mutate"
    /\ Len(ledger) = 1
    /\ Len(sent) = 1
    /\ sent[1].request.endpoint = "POST /players"
    /\ sent[1].request.body.wallet_address = WalletA


\* C31: the step in which an initialization fails with a real error leaves
\* initPromise null and initialized false; a call of ensureWasmInitialized
\* made in that state starts a new initializer and returns its Promise; no
\* call ever returns a Promise that has already failed, and initPromise never
\* holds one; and initialize() throwing "already initialized" resolves the
\* Promise with initialized true and initPromise kept.
C31_FailedInitRetried ==
    [][/\ \A p \in DOMAIN promises :
            (promises[p].pc # "rejected" /\ promises'[p].pc = "rejected")
            => (initPromise' = {} /\ ~initialized')
       /\ (Len(callers') = Len(callers) + 1 /\ initPromise = {} /\ ~initialized)
            => /\ Len(promises') = Len(promises) + 1
               /\ promises'[Len(promises')].pc = "import"
               /\ callers'[Len(callers')] = {Len(promises')}
               /\ initPromise' = {Len(promises')}
       /\ Len(callers') = Len(callers) + 1
            => \A q \in callers'[Len(callers')] : promises'[q].pc # "rejected"
       /\ \A q \in initPromise' : promises'[q].pc # "rejected"
       /\ \A p \in DOMAIN promises :
            initialize(p, "already")
            => /\ initialized'
               /\ promises'[p].pc = "resolved"
               /\ initPromise' = initPromise]_vars

\* C31 witness: a first initialization failed inside initialize(), and the
\* next call has started a second one, which is in progress
C31_Witness ==
    /\ resets = 0
    /\ callers = <<{1}, {2}>>
    /\ promises[1] = [pc |-> "rejected", invoked |-> TRUE]
    /\ promises[2].pc = "import"
    /\ initPromise = {2}
    /\ ~isWasmReady


\* The attempts of performConnect that have not settled
ConnectInFlight == {a \in DOMAIN attempts : attempts[a].pc \in {"wasm", "faucet"}}

\* C32: while an attempt of performConnect is in flight no step starts
\* another one, and a call of connect made then returns the existing
\* connection of its address or awaits the attempt in flight; a call made
\* when connected with the same address returns the existing connection and
\* starts no attempt.
C32_SingleConnectAttempt ==
    [][/\ ConnectInFlight # {}
            => /\ Len(attempts') = Len(attempts)
               /\ (Len(connectCalls') = Len(connectCalls) + 1
                   /\ connectCalls'[Len(connectCalls')].pc = "await")
                  => connectCalls'[Len(connectCalls')].promise = ConnectInFlight
       /\ \A w \in ConnectWallets :
            (lineraAdapter_connect(w) /\ \E c \in connection : c.address = toLowerCase(w))
            => /\ connectCalls'[Len(connectCalls')].pc = "returned"
               /\ connectCalls'[Len(connectCalls')].value = connection
               /\ attempts' = attempts
               /\ connection' = connection]_vars

\* C32 restricted to the adapter before any call of disconnect
C32_SingleConnectAttemptBeforeDisconnect ==
    [][disconnects = 0 =>
        /\ ConnectInFlight # {}
            => /\ Len(attempts') = Len(attempts)
               /\ (Len(connectCalls') = Len(connectCalls) + 1
                   /\ connectCalls'[Len(connectCalls')].pc = "await")
                  => connectCalls'[Len(connectCalls')].promise = ConnectInFlight
        /\ \A w \in ConnectWallets :
            (lineraAdapter_connect(w) /\ \E c \in connection : c.address = toLowerCase(w))
            => /\ connectCalls'[Len(connectCalls')].pc = "returned"
               /\ connectCalls'[Len(connectCalls')].value = connection
               /\ attempts' = attempts
               /\ connection' = connection]_vars


\* C34: whenever there is an application connection there is a wallet
\* connection, and the application connection is on the chain of that
\* wallet connection.
C34_AppConnectionWithinConnection ==
    /\ isApplicationConnected => isConnected
    /\ \A app \in appConnection : \A c \in connection : app.chainId = c.chainId

\* C34 restricted to the adapter while no call of connect has failed, no
\* second wallet has connected and disconnect has not been called
C34_AppConnectionOfFirstConnection ==
    (disconnects = 0 /\ Len(attempts) <= 1)
    => C34_AppConnectionWithinConnection


\* C35: when disconnect has been called and connect has not been called
\* since, there is neither a connection nor an application connection.
C35_DisconnectedUntilConnect ==
    (/\ disconnects > 0
     /\ \A c \in DOMAIN connectCalls : connectCalls[c].epoch < disconnects)
    => (~isConnected /\ ~isApplicationConnected)


\* C36: every call of connect that has returned has returned a connection
\* whose address is the lower-cased address of the wallet it was called
\* with.
C36_ConnectResolvesOwnAddress ==
    \A c \in DOMAIN connectCalls :
        connectCalls[c].pc = "returned"
        => /\ connectCalls[c].value # {}
           /\ \A v \in connectCalls[c].value : v.address = connectCalls[c].wallet


\* The calls of refresh that hold the flag
Refreshing == {i \in DOMAIN refreshes :
                 refreshes[i].pc \in {"getLeaderboard", "getStats", "getGameHighScores"}}

\* What C33 says of the flag: at most one refresh runs, the flag is set
\* exactly while one runs, a call made while one runs is skipped and changes
\* nothing, and a call made while none runs is not skipped.
RefreshExclusive ==
    /\ Cardinality(Refreshing') <= 1
    /\ isRefreshing' <=> Refreshing' # {}
    /\ Len(refreshes') = Len(refreshes) + 1
        => IF Refreshing # {}
           THEN /\ refreshes'[Len(refreshes')].pc = "skipped"
                /\ board' = board
                /\ Refreshing' = Refreshing
           ELSE refreshes'[Len(refreshes')].pc = "getLeaderboard"

\* C33 as stated: the flag as above, and the step in which a refresh fails
\* leaves the data the hook showed when that refresh was called.
C33_RefreshExclusiveKeepsData ==
    [][/\ RefreshExclusive
       /\ \A i \in DOMAIN refreshes :
            (refreshes[i].pc # "failed" /\ refreshes'[i].pc = "failed")
            => Loaded(board') = refreshes[i].loaded]_vars

\* C33 amended: the flag as above, and the step in which a refresh fails
\* changes no data and leaves the stats and the high scores the hook showed
\* when that refresh was called, and also the leaderboard when it was the
\* leaderboard request that failed.
C33_RefreshExclusiveKeepsUnfetched ==
    [][/\ RefreshExclusive
       /\ \A i \in DOMAIN refreshes :
            (refreshes[i].pc # "failed" /\ refreshes'[i].pc = "failed")
            => /\ Loaded(board') = Loaded(board)
               /\ board'.stats = refreshes[i].loaded.stats
               /\ board'.gameHighScores = refreshes[i].loaded.gameHighScores
               /\ refreshes[i].pc = "getLeaderboard"
                  => board'.leaderboard = refreshes[i].loaded.leaderboard]_vars

\* C33 witness: a first refresh failed at the stats request after it had
\* replaced the leaderboard, a call made meanwhile was skipped, and a third
\* call made after the failure is running
C33_Witness ==
    /\ Len(refreshes) = 3
    /\ refreshes[1].pc = "failed"
    /\ refreshes[2].pc = "skipped"
    /\ refreshes[3].pc = "getLeaderboard"
    /\ refreshes[1].loaded.leaderboard = <<>>
    /\ board.leaderboard # <<>>
    /\ board.stats.totalPlayers = 0
    /\ isRefreshing


\* Nothing is on its way: no mutation is awaited, every request issued has
\* reached the backend and every handler has completed
SyncQuiescent ==
    /\ \A c \in DOMAIN apiCalls : apiCalls[c].pc # "mutate"
    /\ \A s \in DOMAIN sent : sent[s].delivered
    /\ inflight = <<>>

\* C37: when the ledger accepted a registration of the connected player and
\* then score submissions, and every sync request has been served, the
\* backend holds the player, a ScoreRecord for every score synced, and a
\* total_xp that is the sum of the xp_earned of those ScoreRecords.
C37_ScoreSyncCredited ==
    (/\ SyncQuiescent
     /\ Len(ledger) >= 2
     /\ ledger[1].op = "registerPlayer"
     /\ \A l \in 2..Len(ledger) : ledger[l].op = "submitScore")
    => \A w \in getAddress :
          /\ IndexOf(w) # 0
          /\ Len(scores) = Len(ledger) - 1
          /\ PlayerOf(w).total_xp = SumXpEarned(scores, w)


\* C38: in the step in which a call of syncToLeaderboard returns, nothing
\* else being on its way and the ledger still answering what it answered to
\* that call, the backend holds the player with the total_xp of the ledger.
C38_SyncToLeaderboardIdempotent ==
    [][\A i \in DOMAIN apiCalls :
         (/\ apiCalls[i].op = "syncToLeaderboard"
          /\ apiCalls[i].pc # "returned"
          /\ apiCalls'[i].pc = "returned"
          /\ SyncQuiescent
          /\ ledgerPlayer = apiCalls[i].player)
         => \A w \in apiCalls[i].wallet : \A pl \in apiCalls[i].player :
               /\ IndexOf(w) # 0
               /\ PlayerOf(w).total_xp = pl.totalXp]_vars


\* The total_xp of the PlayerRecords of ps, summed
RECURSIVE SumTotalXp(_)
SumTotalXp(ps) ==
    IF ps = <<>> THEN 0 ELSE Head(ps).total_xp + SumTotalXp(Tail(ps))

\* The games_played of the PlayerRecords of ps, summed
RECURSIVE SumGamesPlayed(_)
SumGamesPlayed(ps) ==
    IF ps = <<>> THEN 0 ELSE Head(ps).games_played + SumGamesPlayed(Tail(ps))

\* C39: in every state the total_xp of all PlayerRecords sum to
\* total_xp_earned and their games_played sum to total_games_played.
C39_DirectoryMatchesCounters ==
    /\ SumTotalXp(players) = stats.total_xp_earned
    /\ SumGamesPlayed(players) = stats.total_games_played

====
